---------------------------- MODULE Spec2Model ----------------------------
(***************************************************************************)
(* seabox: the asset manifest, the encryption layer and the runtime        *)
(* bootstrap (bootstrap.js, crypto-assets.js, manifest.js).                *)
(*                                                                         *)
(* Strings are sequences of one-character strings, so that the string      *)
(* tests of the code (endsWith, includes, basename, extname) are computed  *)
(* character by character.  File contents are opaque values and SHA-256    *)
(* is an injective tagging of a content.                                   *)
(***************************************************************************)
EXTENDS Integers, Sequences, FiniteSets, TLC

(***************************************************************************)
(* Bounds of the model.                                                    *)
(***************************************************************************)
MaxAssets == 2

MaxRuns == 2

MaxPlainLen == 2

\* The longest assets array of a configuration.
MaxPatterns == 3

(***************************************************************************)
(* String helpers (String.prototype.endsWith / includes / startsWith).     *)
(***************************************************************************)
Tail_(s, n) == SubSeq(s, Len(s) - n + 1, Len(s))

EndsWith(s, t) == Len(t) <= Len(s) /\ Tail_(s, Len(t)) = t

StartsWith(s, t) == Len(t) <= Len(s) /\ SubSeq(s, 1, Len(t)) = t

Includes(s, t) ==
    \E i \in 1..(Len(s) - Len(t) + 1) : SubSeq(s, i, i + Len(t) - 1) = t

\* The characters the host's path module takes as separators.
IsSep(host, ch) == ch = "/" \/ (host.platform = "win32" /\ ch = "\\")

\* path.sep
PathSep(host) == IF host.platform = "win32" THEN "\\" ELSE "/"

\* assetKey.replace(/\//g, path.sep)
ReplaceSlash(s, host) ==
    [i \in 1..Len(s) |-> IF s[i] = "/" THEN PathSep(host) ELSE s[i]]

\* Index of the last separator of s at or before position n (0: none).
RECURSIVE LastSepUpTo(_, _, _)
LastSepUpTo(host, s, n) ==
    IF n = 0 THEN 0
    ELSE IF IsSep(host, s[n]) THEN n
    ELSE LastSepUpTo(host, s, n - 1)

\* s without its trailing separators.
RECURSIVE StripTrailingSeps(_, _)
StripTrailingSeps(host, s) ==
    IF Len(s) > 0 /\ IsSep(host, s[Len(s)])
    THEN StripTrailingSeps(host, SubSeq(s, 1, Len(s) - 1))
    ELSE s

\* path.basename(p)
Basename(host, p) ==
    LET q == StripTrailingSeps(host, p)
        k == LastSepUpTo(host, q, Len(q))
    IN  SubSeq(q, k + 1, Len(q))

\* path.dirname(p), for a path with a directory part.
Dirname(host, p) ==
    LET q == StripTrailingSeps(host, p)
        k == LastSepUpTo(host, q, Len(q))
    IN  IF k = 0 THEN <<".">> ELSE IF k = 1 THEN SubSeq(q, 1, 1)
        ELSE SubSeq(q, 1, k - 1)

\* Index of the last "." of s at or before position n (0: none).
RECURSIVE LastDotUpTo(_, _)
LastDotUpTo(s, n) ==
    IF n = 0 THEN 0
    ELSE IF s[n] = "." THEN n
    ELSE LastDotUpTo(s, n - 1)

\* path.extname(p): from the last "." of the basename, "" when there is none
\* or when it is the basename's first character.
Extname(host, p) ==
    LET b == Basename(host, p)
        k == LastDotUpTo(b, Len(b))
    IN  IF k <= 1 THEN <<>> ELSE SubSeq(b, k, Len(b))

\* path.basename(p, ext)
BasenameExt(host, p, ext) ==
    LET b == Basename(host, p)
    IN  IF Len(ext) > 0 /\ EndsWith(b, ext) /\ b # ext
        THEN SubSeq(b, 1, Len(b) - Len(ext))
        ELSE b

\* String.prototype.toLowerCase on the characters the model uses.
LowerChar(ch) ==
    CASE ch = "D" -> "d"
      [] ch = "L" -> "l"
      [] ch = "X" -> "x"
      [] OTHER -> ch

ToLowerCase(s) == [i \in 1..Len(s) |-> LowerChar(s[i])]

\* The segments of a path: the maximal separator-free substrings.
RECURSIVE SplitFrom(_, _, _, _)
SplitFrom(host, s, i, cur) ==
    IF i > Len(s) THEN (IF cur = <<>> THEN <<>> ELSE <<cur>>)
    ELSE IF IsSep(host, s[i])
         THEN (IF cur = <<>> THEN <<>> ELSE <<cur>>) \o SplitFrom(host, s, i + 1, <<>>)
         ELSE SplitFrom(host, s, i + 1, Append(cur, s[i]))

Segments(host, s) == SplitFrom(host, s, 1, <<>>)

\* normalizeString: "." segments dropped, ".." removes the segment before it
\* (kept above the root of a relative path).
RECURSIVE NormSegs(_, _, _)
NormSegs(segs, acc, allowAboveRoot) ==
    IF segs = <<>> THEN acc
    ELSE LET h == Head(segs) IN
         IF h = <<".">> THEN NormSegs(Tail(segs), acc, allowAboveRoot)
         ELSE IF h = <<".", ".">>
              THEN IF acc # <<>> /\ acc[Len(acc)] # <<".", ".">>
                   THEN NormSegs(Tail(segs), SubSeq(acc, 1, Len(acc) - 1), allowAboveRoot)
                   ELSE IF allowAboveRoot
                        THEN NormSegs(Tail(segs), Append(acc, h), allowAboveRoot)
                        ELSE NormSegs(Tail(segs), acc, allowAboveRoot)
              ELSE NormSegs(Tail(segs), Append(acc, h), allowAboveRoot)

RECURSIVE JoinSegs(_, _)
JoinSegs(host, segs) ==
    IF segs = <<>> THEN <<>>
    ELSE IF Len(segs) = 1 THEN segs[1]
    ELSE segs[1] \o <<PathSep(host)>> \o JoinSegs(host, Tail(segs))

\* path.normalize(p) for rooted and relative paths without a drive letter.
Normalize(host, p) ==
    IF p = <<>> THEN <<".">>
    ELSE LET abs   == IsSep(host, p[1])
             trail == IsSep(host, p[Len(p)])
             body  == JoinSegs(host, NormSegs(Segments(host, p), <<>>, ~abs))
         IN  IF body = <<>>
             THEN (IF abs THEN <<PathSep(host)>>
                   ELSE IF trail THEN <<".", PathSep(host)>> ELSE <<".">>)
             ELSE (IF abs THEN <<PathSep(host)>> ELSE <<>>) \o body
                  \o (IF trail THEN <<PathSep(host)>> ELSE <<>>)

\* path.join(dir, name) for a normalized dir and a plain file name.
PathJoin(host, dir, name) == Normalize(host, dir \o <<PathSep(host)>> \o name)

(***************************************************************************)
(* Contents and hashes.                                                    *)
(***************************************************************************)
\* crypto.createHash('sha256').update(content).digest('hex'): collision-free.
Sha256(content) == <<"sha256", content>>

\* Marks a directory in the disk map.
DirMark == "dir"

\* What an outside change leaves in a cached file.
Garbage == "garbage"

\* What the blob holds for an asset whose source file changed after it was
\* hashed, or whose embedded bytes were damaged.
Stale == "stale"

(***************************************************************************)
(* The build: assets and the manifest (manifest.js).                       *)
(***************************************************************************)
Str_node == <<".", "n", "o", "d", "e">>
Str_dll == <<".", "d", "l", "l">>
Str_so == <<".", "s", "o">>
Str_dylib == <<".", "d", "y", "l", "i", "b">>

\* The host the build runs on (path.basename of a source path).
BuildHost == [platform |-> "linux", arch |-> "x64"]

\* An asset entry as the scanners produce it: the hash of a binary is the
\* SHA-256 of the source file when it was collected.
Asset(key, src, bin, c) ==
    [assetKey |-> key, sourcePath |-> src, isBinary |-> bin,
     hash |-> Sha256(c), content |-> c]

\* The files of the project the asset lists are drawn from.
AssetUniverse ==
    { \* a rebuilt module: key native/<module>.node, built as b.node
      Asset(<<"n", "/", "m">> \o Str_node, <<"/", "r", "/", "b">> \o Str_node, TRUE, "c1"),
      \* a copy of the same add-on under the module's name
      Asset(<<"v", "/", "m">> \o Str_node, <<"/", "p", "/", "v", "/", "m">> \o Str_node, TRUE, "c1"),
      \* another package's add-on with the same file names and other content
      Asset(<<"w", "/", "m">> \o Str_node, <<"/", "p", "/", "w", "/", "m">> \o Str_node, TRUE, "c2"),
      Asset(<<"p", "/", "b">> \o Str_node, <<"/", "p", "/", "p", "/", "b">> \o Str_node, TRUE, "c2"),
      Asset(<<"l", "/", "x">> \o Str_dll, <<"/", "p", "/", "l", "/", "x">> \o Str_dll, TRUE, "c3"),
      Asset(<<"l", "/", "z">> \o Str_so, <<"/", "p", "/", "l", "/", "z">> \o Str_so, TRUE, "c4"),
      Asset(<<"l", "/", "z">> \o Str_so \o <<".", "1">>,
            <<"/", "p", "/", "l", "/", "z">> \o Str_so \o <<".", "1">>, TRUE, "c5"),
      Asset(<<"c", ".", "j">>, <<"/", "p", "/", "c", ".", "j">>, FALSE, "c6") }

\* Asset lists with pairwise distinct keys (both pipelines dedupe by key).
AssetLists ==
    { l \in UNION { [1..n -> AssetUniverse] : n \in 0..MaxAssets } :
        \A i, j \in 1..Len(l) : i # j => l[i].assetKey # l[j].assetKey }

Targets ==
    { [platform |-> "linux", arch |-> "x64"],
      [platform |-> "win32", arch |-> "x64"],
      [platform |-> "linux", arch |-> "arm64"] }

Hosts ==
    { [platform |-> "linux", arch |-> "x64"],
      [platform |-> "win32", arch |-> "x64"] }

\* inferExtractionOrder(fileName, fallbackIndex); fallbackIndex is 0-based.
inferExtractionOrder(fileName, fallbackIndex) ==
    LET ext == ToLowerCase(Extname(BuildHost, fileName))
    IN  IF ext \in {Str_dll, Str_so, Str_dylib} THEN 10
        ELSE IF ext = Str_node THEN 20
        ELSE 100 + fallbackIndex

\* assets.filter(a => a.isBinary)
RECURSIVE FilterBinary(_)
FilterBinary(l) ==
    IF l = <<>> THEN <<>>
    ELSE (IF Head(l).isBinary THEN <<Head(l)>> ELSE <<>>) \o FilterBinary(Tail(l))

\* A configuration that names no package and no cache location.
DefaultConfig == [_packageName |-> <<>>, _packageVersion |-> <<>>, cacheLocation |-> <<>>]

\* generateManifest(assets, config, targetPlatform, targetArch); a manifest
\* without cacheLocation has the empty cacheLocation here.
generateManifest(assetList, config, target) ==
    LET bins == FilterBinary(assetList)
    IN  [appName |-> IF config._packageName # <<>> THEN config._packageName
                     ELSE <<"a", "p", "p">>,
         appVersion |-> IF config._packageVersion # <<>> THEN config._packageVersion
                        ELSE <<"1", ".", "0", ".", "0">>,
         platform |-> target.platform, arch |-> target.arch,
         binaries |->
            [i \in 1..Len(bins) |->
                LET fileName == Basename(BuildHost, bins[i].sourcePath)
                IN  [assetKey |-> bins[i].assetKey,
                     fileName |-> fileName,
                     platform |-> target.platform,
                     arch |-> target.arch,
                     order |-> inferExtractionOrder(fileName, i - 1),
                     hash |-> bins[i].hash]],
         allAssetKeys |-> [i \in 1..Len(assetList) |-> assetList[i].assetKey],
         cacheLocation |-> config.cacheLocation]


(***************************************************************************)
(* The runtime: bootstrap.js.                                              *)
(***************************************************************************)
\* JavaScript's null / undefined for a path.
Null == <<>>

\* obj[k] = v on a plain object: a new key goes last, an existing key keeps
\* its place (Object.entries iterates in insertion order).
ObjSet(obj, k, v) ==
    IF \E i \in 1..Len(obj) : obj[i].k = k
    THEN [i \in 1..Len(obj) |-> IF obj[i].k = k THEN [k |-> k, v |-> v] ELSE obj[i]]
    ELSE Append(obj, [k |-> k, v |-> v])

\* obj[k], Null when the key is absent.
ObjGet(obj, k) ==
    IF \E i \in 1..Len(obj) : obj[i].k = k
    THEN obj[CHOOSE i \in 1..Len(obj) : obj[i].k = k].v
    ELSE Null

\* The loop of getRedirectedPath over Object.entries(assetPathMapGlobal).
RECURSIVE RedirectFrom(_, _, _, _)
RedirectFrom(host, map, normalized, i) ==
    IF i > Len(map) THEN Null
    ELSE LET assetKey == map[i].k IN
         IF \/ EndsWith(normalized, assetKey)
            \/ Basename(host, normalized) = Basename(host, assetKey)
            \/ Includes(normalized, ReplaceSlash(assetKey, host))
         THEN map[i].v
         ELSE RedirectFrom(host, map, normalized, i + 1)

\* getRedirectedPath(requestedPath)
getRedirectedPath(host, map, requestedPath) ==
    IF requestedPath = <<>> THEN Null
    ELSE RedirectFrom(host, map, Normalize(host, requestedPath), 1)

\* The original fs.existsSync.
originalExistsSync(disk, p) == p \in DOMAIN disk

\* The overridden fs.existsSync(filePath).
existsSync(host, map, cacheDirG, disk, filePath) ==
    IF filePath = <<>> THEN originalExistsSync(disk, filePath)
    ELSE LET redirected == getRedirectedPath(host, map, filePath) IN
         IF redirected # Null THEN originalExistsSync(disk, redirected)
         ELSE IF /\ EndsWith(filePath, Str_node)
                 /\ cacheDirG # <<>>
                 /\ \E i \in 1..Len(map) :
                        Basename(host, map[i].k) = Basename(host, filePath)
              THEN IF StartsWith(filePath, cacheDirG)
                   THEN originalExistsSync(disk, filePath)
                   ELSE FALSE
              ELSE originalExistsSync(disk, filePath)

\* The path the overridden fs.readFileSync / statSync / lstatSync hand to the
\* original function.
ReadTarget(host, map, filePath) ==
    LET redirected == getRedirectedPath(host, map, filePath)
    IN  IF redirected # Null THEN redirected ELSE filePath

\* The overridden fs.realpathSync(filePath) for a redirected path.
realpathSync(host, map, filePath) == ReadTarget(host, map, filePath)

\* The fs.readFileSync override on a string path: the content read, or the
\* ENOENT / EISDIR error of the original on the path it ends up reading.
readFileSync(host, map, disk, filePath) ==
    LET readPath == ReadTarget(host, map, filePath)
    IN  IF readPath \in DOMAIN disk /\ disk[readPath] # DirMark
        THEN [threw |-> FALSE, value |-> disk[readPath]]
        ELSE [threw |-> TRUE, value |-> <<>>]

DiskRemove(disk, p) == [q \in DOMAIN disk \ {p} |-> disk[q]]

DiskPut(disk, p, c) == [q \in DOMAIN disk \cup {p} |-> IF q = p THEN c ELSE disk[q]]

Op(kind, path, key) == [op |-> kind, path |-> path, key |-> key]

\* A tail of extractBinary that writes the fetched bytes before it verifies them.
ExtractFetchMut(host, map, cacheDirG, disk, ops, blob, assetKey, targetPath, expectedHash) ==
    IF assetKey \notin DOMAIN blob
    THEN [disk |-> disk, ops |-> ops, err |-> "missing"]
    ELSE LET buffer == blob[assetKey]
             dir    == Dirname(host, targetPath)
             disk1  == IF existsSync(host, map, cacheDirG, disk, dir) THEN disk
                       ELSE DiskPut(disk, dir, DirMark)
             ops1   == IF existsSync(host, map, cacheDirG, disk, dir) THEN ops
                       ELSE Append(ops, Op("mkdir", dir, assetKey))
             ops2   == Append(ops1, Op("write", targetPath, assetKey))
         IN  [disk |-> DiskPut(disk1, targetPath, buffer),
              ops  |-> IF host.platform # "win32"
                       THEN Append(ops2, Op("chmod", targetPath, assetKey))
                       ELSE ops2,
              err  |-> IF Sha256(buffer) # expectedHash THEN "integrity" ELSE "none"]

\* The tail of extractBinary: fetch from the blob, verify, mkdir, write, chmod.
ExtractFetch(host, map, cacheDirG, disk, ops, blob, assetKey, targetPath, expectedHash) ==
    IF assetKey \notin DOMAIN blob
    THEN [disk |-> disk, ops |-> ops, err |-> "missing"]
    ELSE LET buffer == blob[assetKey] IN
         IF Sha256(buffer) # expectedHash
         THEN [disk |-> disk, ops |-> ops, err |-> "integrity"]
         ELSE LET dir   == Dirname(host, targetPath)
                  disk1 == IF existsSync(host, map, cacheDirG, disk, dir) THEN disk
                           ELSE DiskPut(disk, dir, DirMark)
                  ops1  == IF existsSync(host, map, cacheDirG, disk, dir) THEN ops
                           ELSE Append(ops, Op("mkdir", dir, assetKey))
                  ops2  == Append(ops1, Op("write", targetPath, assetKey))
              IN  [disk |-> DiskPut(disk1, targetPath, buffer),
                   ops  |-> IF host.platform # "win32"
                            THEN Append(ops2, Op("chmod", targetPath, assetKey))
                            ELSE ops2,
                   err  |-> "none"]

\* hashFile(filePath): fs.readFileSync here is the overridden one.
hashFile(host, map, disk, filePath) == Sha256(disk[ReadTarget(host, map, filePath)])

\* extractBinary(assetKey, targetPath, expectedHash): the disk and the log of
\* file operations after the call, and the error it threw ("none": returned).
extractBinary(host, map, cacheDirG, disk, ops, blob, assetKey, targetPath, expectedHash) ==
    IF existsSync(host, map, cacheDirG, disk, targetPath)
    THEN IF ReadTarget(host, map, targetPath) \notin DOMAIN disk
         THEN [disk |-> disk, ops |-> ops, err |-> "ENOENT"]
         ELSE IF hashFile(host, map, disk, targetPath) = expectedHash
              THEN [disk |-> disk, ops |-> ops, err |-> "none"]
              ELSE IF targetPath \notin DOMAIN disk
                   THEN [disk |-> disk, ops |-> ops, err |-> "ENOENT"]
                   ELSE ExtractFetch(host, map, cacheDirG, DiskRemove(disk, targetPath),
                                     Append(ops, Op("unlink", targetPath, assetKey)),
                                     blob, assetKey, targetPath, expectedHash)
    ELSE ExtractFetch(host, map, cacheDirG, disk, ops, blob, assetKey, targetPath,
                      expectedHash)

\* manifest.binaries.filter(b => platform and arch match the host)
RECURSIVE FilterPlatform(_, _)
FilterPlatform(host, bins) ==
    IF bins = <<>> THEN <<>>
    ELSE LET b == Head(bins) IN
         (IF /\ (b.platform = "*" \/ b.platform = host.platform)
             /\ (b.arch = "*" \/ b.arch = host.arch)
          THEN <<b>> ELSE <<>>) \o FilterPlatform(host, Tail(bins))

\* Array.prototype.sort((a, b) => a.order - b.order): stable.
RECURSIVE InsertByOrder(_, _)
InsertByOrder(sorted, b) ==
    IF sorted = <<>> THEN <<b>>
    ELSE IF sorted[Len(sorted)].order <= b.order THEN Append(sorted, b)
    ELSE Append(InsertByOrder(SubSeq(sorted, 1, Len(sorted) - 1), b), sorted[Len(sorted)])

RECURSIVE SortByOrderFrom(_, _, _)
SortByOrderFrom(bins, i, acc) ==
    IF i > Len(bins) THEN acc
    ELSE SortByOrderFrom(bins, i + 1, InsertByOrder(acc, bins[i]))

SortByOrder(bins) == SortByOrderFrom(bins, 1, <<>>)

Str_SEACACHE == <<"S", "E", "A", "C", "A", "C", "H", "E">>
Str_LOCALAPPDATA == <<"L", "O", "C", "A", "L", "A", "P", "P", "D", "A", "T", "A">>
Str_HOME == <<"H", "O", "M", "E">>

\* process.env[name]: the empty string when the variable is not set.
EnvGet(env, name) == IF name \in DOMAIN env THEN env[name] ELSE <<>>

\* process.env of the runs of the model: SEACACHE is set (as in the
\* repository's native tests), HOME is the fallback of the default.
ProcessEnv(host) ==
    (Str_SEACACHE :> <<PathSep(host), "c">>) @@ (Str_HOME :> <<PathSep(host), "h">>)

\* process.cwd()
Cwd(host) == <<PathSep(host), "w">>

PlatformChars(x) ==
    CASE x = "linux" -> <<"l", "i", "n", "u", "x">>
      [] x = "win32" -> <<"w", "i", "n", "3", "2">>
      [] x = "x64" -> <<"x", "6", "4">>
      [] x = "arm64" -> <<"a", "r", "m", "6", "4">>

\* [A-Za-z_] and [A-Za-z0-9_]
VarStartChars ==
    {"A", "B", "C", "D", "E", "F", "G", "H", "I", "J", "K", "L", "M", "N", "O", "P", "Q",
     "R", "S", "T", "U", "V", "W", "X", "Y", "Z", "a", "b", "c", "d", "e", "f", "g", "h",
     "i", "j", "k", "l", "m", "n", "o", "p", "q", "r", "s", "t", "u", "v", "w", "x", "y",
     "z", "_"}

VarChars == VarStartChars \cup {"0", "1", "2", "3", "4", "5", "6", "7", "8", "9"}

\* The first index at or after i where s holds ch (0: none).
RECURSIVE IndexOfFrom(_, _, _)
IndexOfFrom(s, ch, i) ==
    IF i > Len(s) THEN 0
    ELSE IF s[i] = ch THEN i
    ELSE IndexOfFrom(s, ch, i + 1)

\* The last index of the run of [A-Za-z0-9_] that starts at i.
RECURSIVE VarEnd(_, _)
VarEnd(s, i) ==
    IF i + 1 <= Len(s) /\ s[i + 1] \in VarChars THEN VarEnd(s, i + 1) ELSE i

\* process.env[varName] || match
EnvOr(env, varName, match) ==
    IF EnvGet(env, varName) # <<>> THEN EnvGet(env, varName) ELSE match

\* pathStr.replace(/%([^%]+)%/g, ...)
RECURSIVE ReplacePercent(_, _, _)
ReplacePercent(env, s, i) ==
    IF i > Len(s) THEN <<>>
    ELSE LET j == IF s[i] = "%" THEN IndexOfFrom(s, "%", i + 1) ELSE 0 IN
         IF j > i + 1
         THEN EnvOr(env, SubSeq(s, i + 1, j - 1), SubSeq(s, i, j))
              \o ReplacePercent(env, s, j + 1)
         ELSE <<s[i]>> \o ReplacePercent(env, s, i + 1)

\* resolved.replace(/\$\{([^}]+)\}/g, ...)
RECURSIVE ReplaceBraced(_, _, _)
ReplaceBraced(env, s, i) ==
    IF i > Len(s) THEN <<>>
    ELSE LET j == IF s[i] = "$" /\ i + 1 <= Len(s) /\ s[i + 1] = "{"
                  THEN IndexOfFrom(s, "}", i + 2) ELSE 0 IN
         IF j > i + 2
         THEN EnvOr(env, SubSeq(s, i + 2, j - 1), SubSeq(s, i, j))
              \o ReplaceBraced(env, s, j + 1)
         ELSE <<s[i]>> \o ReplaceBraced(env, s, i + 1)

\* resolved.replace(/\$([A-Za-z_][A-Za-z0-9_]*)/g, ...)
RECURSIVE ReplaceDollar(_, _, _)
ReplaceDollar(env, s, i) ==
    IF i > Len(s) THEN <<>>
    ELSE IF s[i] = "$" /\ i + 1 <= Len(s) /\ s[i + 1] \in VarStartChars
         THEN LET j == VarEnd(s, i + 1) IN
              EnvOr(env, SubSeq(s, i + 1, j), SubSeq(s, i, j))
              \o ReplaceDollar(env, s, j + 1)
         ELSE <<s[i]>> \o ReplaceDollar(env, s, i + 1)

\* resolveEnvVars(pathStr)
resolveEnvVars(env, pathStr) ==
    IF pathStr = <<>> THEN pathStr
    ELSE ReplaceDollar(env, ReplaceBraced(env, ReplacePercent(env, pathStr, 1), 1), 1)

\* path.isAbsolute(p) for paths without a drive letter.
IsAbsolute(host, p) == p # <<>> /\ IsSep(host, p[1])

\* path.resolve(process.cwd(), p) for a relative p.
PathResolve(host, cwd, p) == Normalize(host, cwd \o <<PathSep(host)>> \o p)

\* `${appVersion}-${platform}-${arch}`
VersionDir(m) ==
    m.appVersion \o <<"-">> \o PlatformChars(m.platform) \o <<"-">> \o PlatformChars(m.arch)

\* getExtractionCacheDir(appName, appVersion, platform, arch, cacheLocation)
getExtractionCacheDir(host, env, cwd, m) ==
    IF EnvGet(env, Str_SEACACHE) # <<>> THEN EnvGet(env, Str_SEACACHE)
    ELSE IF m.cacheLocation # <<>>
    THEN LET resolvedBase == resolveEnvVars(env, m.cacheLocation)
             absoluteBase == IF IsAbsolute(host, resolvedBase) THEN resolvedBase
                             ELSE PathResolve(host, cwd, resolvedBase)
         IN  Normalize(host, absoluteBase \o <<PathSep(host)>> \o m.appName
                             \o <<PathSep(host)>> \o VersionDir(m))
    ELSE LET localAppData ==
                 IF EnvGet(env, Str_LOCALAPPDATA) # <<>> THEN EnvGet(env, Str_LOCALAPPDATA)
                 ELSE IF EnvGet(env, Str_HOME) # <<>> THEN EnvGet(env, Str_HOME)
                 ELSE cwd
         IN  Normalize(host,
                localAppData \o <<PathSep(host)>>
                \o <<".", "s", "e", "a", "-", "c", "a", "c", "h", "e">>
                \o <<PathSep(host)>> \o m.appName \o <<PathSep(host)>> \o VersionDir(m))

(***************************************************************************)
(* Asset scanning: scanner.js and the glob matching it relies on.           *)
(***************************************************************************)

\* One path segment against one pattern segment; "*" takes any run of
\* characters.
RECURSIVE WildMatch(_, _)
WildMatch(pat, name) ==
    IF pat = <<>> THEN name = <<>>
    ELSE IF Head(pat) = "*"
    THEN WildMatch(Tail(pat), name) \/ (name # <<>> /\ WildMatch(pat, Tail(name)))
    ELSE name # <<>> /\ Head(name) = Head(pat) /\ WildMatch(Tail(pat), Tail(name))

\* The segments of a path against the segments of a pattern; "**" takes any
\* run of segments.
RECURSIVE GlobSegs(_, _)
GlobSegs(pats, segs) ==
    IF pats = <<>> THEN segs = <<>>
    ELSE IF Head(pats) = <<"*", "*">>
    THEN GlobSegs(Tail(pats), segs) \/ (segs # <<>> /\ GlobSegs(pats, Tail(segs)))
    ELSE segs # <<>> /\ WildMatch(Head(pats), Head(segs)) /\ GlobSegs(Tail(pats), Tail(segs))

\* A file (relative to cwd, "/"-separated) matches a glob pattern.
GlobMatch(pattern, file) ==
    GlobSegs(NormSegs(Segments(BuildHost, pattern), <<>>, TRUE), Segments(BuildHost, file))

\* glob(pattern, {cwd, nodir: true, absolute: false, ignore}): the matching
\* files that no ignore pattern matches, in the order of the directory walk,
\* written with the separator of the host.
glob(host, files, pattern, ignore) ==
    LET hit(f) == /\ GlobMatch(pattern, f)
                  /\ ~\E k \in 1..Len(ignore) : GlobMatch(ignore[k], f)
        found == SelectSeq(files, hit)
    IN  [k \in 1..Len(found) |-> ReplaceSlash(found[k], host)]

\* normalizeAssetKey(filePath): filePath.replace(/\\/g, '/')
normalizeAssetKey(filePath) ==
    [k \in 1..Len(filePath) |-> IF filePath[k] = "\\" THEN "/" ELSE filePath[k]]

\* isBinaryAsset(filePath, binaryPatterns)
isBinaryAsset(host, filePath, binaryPatterns) ==
    \/ \E k \in 1..Len(binaryPatterns) :
          Includes(filePath, binaryPatterns[k]) \/ EndsWith(filePath, binaryPatterns[k])
    \/ ToLowerCase(Extname(host, filePath)) \in {Str_node, Str_dll, Str_so, Str_dylib}

\* The body of the inner loop of scanAssets without the seenKeys test.
ScanEntry(host, projectRoot, binaryPatterns, match) ==
    LET isBinary == isBinaryAsset(host, match, binaryPatterns)
    IN  [sourcePath |-> PathResolve(host, projectRoot, match),
         assetKey |-> normalizeAssetKey(match),
         isBinary |-> isBinary,
         hash |-> IF isBinary THEN Sha256(match) ELSE Null]

\* The inner loop without the seenKeys test.
RECURSIVE ScanMatchesAll(_, _, _, _, _, _)
ScanMatchesAll(host, projectRoot, binaryPatterns, matches, k, acc) ==
    IF k > Len(matches) THEN acc
    ELSE ScanMatchesAll(host, projectRoot, binaryPatterns, matches, k + 1,
                        Append(acc, ScanEntry(host, projectRoot, binaryPatterns, matches[k])))

\* for (const match of matches): skip the keys seen, push the others.
RECURSIVE ScanMatches(_, _, _, _, _, _)
ScanMatches(host, projectRoot, binaryPatterns, matches, k, acc) ==
    IF k > Len(matches) THEN acc
    ELSE LET entry == ScanEntry(host, projectRoot, binaryPatterns, matches[k])
             seen == \E n \in 1..Len(acc) : acc[n].assetKey = entry.assetKey
         IN  ScanMatches(host, projectRoot, binaryPatterns, matches, k + 1,
                         IF seen THEN acc ELSE Append(acc, entry))

\* for (const pattern of includePatterns)
RECURSIVE ScanPatterns(_, _, _, _, _, _, _, _)
ScanPatterns(host, files, projectRoot, binaryPatterns, includePatterns, allExclusions, k, acc) ==
    IF k > Len(includePatterns) THEN acc
    ELSE ScanPatterns(host, files, projectRoot, binaryPatterns, includePatterns,
                      allExclusions, k + 1,
                      ScanMatches(host, projectRoot, binaryPatterns,
                                  glob(host, files, includePatterns[k], allExclusions),
                                  1, acc))

\* The '!'-prefixed asset patterns with the prefix removed.
NegativePatterns(assetPatterns) ==
    LET neg == SelectSeq(assetPatterns, LAMBDA q : q # <<>> /\ q[1] = "!")
    IN  [k \in 1..Len(neg) |-> SubSeq(neg[k], 2, Len(neg[k]))]

\* scanAssets(assetPatterns, binaryPatterns, excludePatterns, projectRoot) on
\* a project with the given files.
scanAssets(host, files, assetPatterns, binaryPatterns, excludePatterns, projectRoot) ==
    LET includePatterns == SelectSeq(assetPatterns, LAMBDA q : ~(q # <<>> /\ q[1] = "!"))
        allExclusions == NegativePatterns(assetPatterns) \o excludePatterns
    IN  ScanPatterns(host, files, projectRoot, binaryPatterns, includePatterns,
                     allExclusions, 1, <<>>)

\* The entries of platformBinaries whose fileName ends in '.dll', in order.
RECURSIVE DllPreloads(_, _, _)
DllPreloads(host, dir, bins) ==
    IF bins = <<>> THEN <<>>
    ELSE (IF EndsWith(Head(bins).fileName, Str_dll)
          THEN <<Op("dlopen", PathJoin(host, dir, Head(bins).fileName), Head(bins).assetKey)>>
          ELSE <<>>) \o DllPreloads(host, dir, Tail(bins))

(***************************************************************************)
(* Module resolution after bootstrap.                                      *)
(***************************************************************************)
\* The loop of the overridden Module._resolveFilename / Module._load over
\* Object.entries(nativeModuleMap).
RECURSIVE ResolveFrom(_, _, _, _, _)
ResolveFrom(host, nmap, request, normalized, i) ==
    IF i > Len(nmap) THEN Null
    ELSE LET moduleName == nmap[i].k IN
         IF \/ EndsWith(request, moduleName)
            \/ Includes(request, moduleName)
            \/ Includes(normalized, ReplaceSlash(moduleName, host))
         THEN nmap[i].v
         ELSE ResolveFrom(host, nmap, request, normalized, i + 1)

\* The overridden Module._resolveFilename(request): the extracted path, or
\* Null when it falls back to the original resolution.
resolveFilename(host, nmap, request) ==
    IF ObjGet(nmap, request) # Null THEN ObjGet(nmap, request)
    ELSE IF ObjGet(nmap, Basename(host, request)) # Null
         THEN ObjGet(nmap, Basename(host, request))
         ELSE ResolveFrom(host, nmap, request, Normalize(host, request), 1)

\* name.replace(/\.node$/, '')
StripNodeSuffix(name) ==
    IF EndsWith(name, Str_node) THEN SubSeq(name, 1, Len(name) - Len(Str_node)) ELSE name

\* Step 4 of __requireSeabox: the first key that ends with the basename or
\* with the name without extension.
RECURSIVE ShimSearchFrom(_, _, _, _)
ShimSearchFrom(nmap, basename, nameWithoutExt, i) ==
    IF i > Len(nmap) THEN Null
    ELSE IF EndsWith(nmap[i].k, basename) \/ EndsWith(nmap[i].k, nameWithoutExt)
         THEN nmap[i].v
         ELSE ShimSearchFrom(nmap, basename, nameWithoutExt, i + 1)

\* __requireSeabox(id) for a '.node' or 'native/' id inside the packaged
\* executable: the path handed to process.dlopen, Null when none is found.
requireSeabox(host, nmap, id) ==
    LET basename == Basename(host, id)
        nameWithoutExt == StripNodeSuffix(basename)
    IN  IF ObjGet(nmap, id) # Null THEN ObjGet(nmap, id)
        ELSE IF ObjGet(nmap, basename) # Null THEN ObjGet(nmap, basename)
        ELSE IF ObjGet(nmap, nameWithoutExt) # Null THEN ObjGet(nmap, nameWithoutExt)
        ELSE ShimSearchFrom(nmap, basename, nameWithoutExt, 1)

\* name + '.node' unless it already ends with it.
EnsureNodeSuffix(name) == IF EndsWith(name, Str_node) THEN name ELSE name \o Str_node

\* The function __requireSeabox('bindings') returns, applied to name.
requireBindings(host, nmap, name) == requireSeabox(host, nmap, EnsureNodeSuffix(name))

\* The bindings shim bootstrap puts in Module._cache['bindings'].
bindingsShim(host, nmap, name) ==
    LET n == EnsureNodeSuffix(name) IN
    IF ObjGet(nmap, n) # Null THEN ObjGet(nmap, n)
    ELSE ObjGet(nmap, BasenameExt(host, n, Str_node))

(***************************************************************************)
(* The encryption layer: crypto-assets.js and the bootstrap's decryptAsset.*)
(*                                                                         *)
(* AES-256-GCM is modelled by a cipher of the same shape over bytes: a     *)
(* keystream derived from the key and the IV is XORed onto the data, and   *)
(* the 16-byte tag is a polynomial hash of the ciphertext under a          *)
(* key-derived point, masked by a value derived from the key and the IV,   *)
(* over a prime field, so that it changes with every single-bit change of  *)
(* the IV or of the ciphertext.                                            *)
(***************************************************************************)
IvLen == 16

TagLen == 16

KeyLen == 32

RECURSIVE Xor(_, _)
Xor(a, b) ==
    IF a = 0 /\ b = 0 THEN 0
    ELSE (((a % 2) + (b % 2)) % 2) + 2 * Xor(a \div 2, b \div 2)

RECURSIVE Pow2(_)
Pow2(n) == IF n = 0 THEN 1 ELSE 2 * Pow2(n - 1)

\* The prime field of the tag.
GcmMod(x) == x % 65521

RECURSIVE WeightedSum(_, _, _)
\* sum of s[i] * w^i over i in 1..n, in the field
WeightedSum(s, w, n) ==
    IF n = 0 THEN 0
    ELSE GcmMod(w * GcmMod(s[n] + WeightedSum(s, w, n - 1)))

RECURSIVE ByteSum(_, _)
ByteSum(s, n) == IF n = 0 THEN 0 ELSE s[n] + ByteSum(s, n - 1)

\* The hash point derived from the key (never 0).
GcmPoint(key) == 2 + (ByteSum(key, Len(key)) % 251)

\* Byte i of the keystream of (key, iv).
KeystreamByte(key, iv, i) ==
    (ByteSum(key, Len(key)) + WeightedSum(iv, 3, Len(iv)) + (31 * i)) % 256

\* cipher.update(data) / decipher.update(data): the data XOR the keystream.
GcmCrypt(key, iv, data) ==
    [i \in 1..Len(data) |-> Xor(data[i], KeystreamByte(key, iv, i))]

\* cipher.getAuthTag(): 16 bytes, big-endian.
GcmTag(key, iv, ciphertext) ==
    LET t == GcmMod(WeightedSum(ciphertext, GcmPoint(key), Len(ciphertext))
                    + WeightedSum(iv, 3, Len(iv))
                    + 7 * ByteSum(key, Len(key)) + Len(ciphertext))
    IN  [i \in 1..TagLen |->
            IF i = TagLen THEN t % 256
            ELSE IF i = TagLen - 1 THEN t \div 256
            ELSE 0]

\* Buffer.prototype.slice(start, end): byte offsets, end exclusive.
Slice(buf, start, end) ==
    SubSeq(buf, (IF start > Len(buf) THEN Len(buf) ELSE start) + 1,
                IF end > Len(buf) THEN Len(buf) ELSE end)

\* encryptAsset(data, key) with the IV crypto.randomBytes(16) returned:
\* Buffer.concat([iv, authTag, encrypted]).
encryptAsset(data, key, iv) ==
    LET encrypted == GcmCrypt(key, iv, data)
        authTag == GcmTag(key, iv, encrypted)
    IN  iv \o authTag \o encrypted

Threw == [threw |-> TRUE, value |-> <<>>]

Returned(v) == [threw |-> FALSE, value |-> v]

\* An argument of an fs call: a string path, a Buffer or a URL that names a
\* path, or a file descriptor (value: its digits).
FsArg(type, value) == [type |-> type, value |-> value]

\* !filePath
Falsy(arg) ==
    \/ arg.type = "string" /\ arg.value = <<>>
    \/ arg.type = "fd" /\ arg.value = <<"0">>

\* Node's own fs functions, captured as originalExistsSync, originalReadFileSync
\* and originalRealpathSync before the overrides; fds maps the open
\* descriptors to their files.
originalFs(disk, fds, fn, arg) ==
    CASE fn = "existsSync" ->
            Returned(arg.type # "fd" /\ arg.value \in DOMAIN disk)
      [] fn = "readFileSync" ->
            IF arg.type = "fd"
            THEN (IF arg.value \in DOMAIN fds THEN Returned(disk[fds[arg.value]]) ELSE Threw)
            ELSE (IF arg.value \in DOMAIN disk THEN Returned(disk[arg.value]) ELSE Threw)
      [] fn = "realpathSync" ->
            IF arg.type # "fd" /\ arg.value \in DOMAIN disk THEN Returned(arg.value) ELSE Threw
      [] fn = "realpathSync.native" ->
            IF arg.type # "fd" /\ arg.value \in DOMAIN disk THEN Returned(arg.value) ELSE Threw

\* getRedirectedPath(requestedPath) on any argument: path.normalize throws a
\* TypeError for an argument that is not a string.
getRedirectedPathArg(host, map, arg) ==
    IF Falsy(arg) THEN Returned(Null)
    ELSE IF arg.type # "string" THEN Threw
    ELSE Returned(getRedirectedPath(host, map, arg.value))

\* The fs functions after the bootstrap replaced them (Phase 1); the function
\* assigned to fs.realpathSync has no native property.
overriddenFs(host, map, cacheDirG, disk, fds, fn, arg) ==
    LET redirected == getRedirectedPathArg(host, map, arg) IN
    CASE fn = "existsSync" ->
            IF Falsy(arg) THEN originalFs(disk, fds, fn, arg)
            ELSE IF redirected.threw THEN Threw
            ELSE Returned(existsSync(host, map, cacheDirG, disk, arg.value))
      [] fn = "readFileSync" ->
            IF redirected.threw THEN Threw
            ELSE IF redirected.value # Null
            THEN originalFs(disk, fds, fn, FsArg("string", redirected.value))
            ELSE originalFs(disk, fds, fn, arg)
      [] fn = "realpathSync" ->
            IF redirected.threw THEN Threw
            ELSE IF redirected.value # Null THEN Returned(redirected.value)
            ELSE originalFs(disk, fds, fn, arg)
      [] fn = "realpathSync.native" -> Threw

\* A decryptAsset that reads the layout as tag, IV, ciphertext.
decryptAssetSwapped(encryptedData, key) ==
    LET authTag == Slice(encryptedData, 0, TagLen)
        iv == Slice(encryptedData, TagLen, TagLen + IvLen)
        encrypted == Slice(encryptedData, IvLen + TagLen, Len(encryptedData))
    IN  IF Len(iv) = IvLen /\ authTag = GcmTag(key, iv, encrypted)
        THEN Returned(GcmCrypt(key, iv, encrypted))
        ELSE Threw

\* The bootstrap's decryptAsset(encryptedData, key): decipher.final() throws
\* when the tag does not authenticate the data.
decryptAsset(encryptedData, key) ==
    LET iv == Slice(encryptedData, 0, IvLen)
        authTag == Slice(encryptedData, IvLen, IvLen + TagLen)
        encrypted == Slice(encryptedData, IvLen + TagLen, Len(encryptedData))
    IN  IF Len(iv) = IvLen /\ authTag = GcmTag(key, iv, encrypted)
        THEN Returned(GcmCrypt(key, iv, encrypted))
        ELSE Threw

\* Buffer.prototype.toString('utf8'): one code point per well-formed
\* sequence (a byte order mark EF BB BF is U+FEFF and is kept), U+FFFD for a
\* byte that starts none.  Overlong forms and surrogates are not told apart.
RECURSIVE Utf8DecodeFrom(_, _)
Utf8DecodeFrom(bytes, i) ==
    IF i > Len(bytes) THEN <<>>
    ELSE LET b == bytes[i]
             cont(j) == j <= Len(bytes) /\ bytes[j] >= 128 /\ bytes[j] < 192
         IN  IF b < 128 THEN <<b>> \o Utf8DecodeFrom(bytes, i + 1)
             ELSE IF b >= 194 /\ b < 224 /\ cont(i + 1)
                  THEN <<((b - 192) * 64) + (bytes[i + 1] - 128)>>
                       \o Utf8DecodeFrom(bytes, i + 2)
             ELSE IF b >= 224 /\ b < 240 /\ cont(i + 1) /\ cont(i + 2)
                  THEN <<((b - 224) * 4096) + ((bytes[i + 1] - 128) * 64)
                         + (bytes[i + 2] - 128)>>
                       \o Utf8DecodeFrom(bytes, i + 3)
             ELSE IF b >= 240 /\ b < 245 /\ cont(i + 1) /\ cont(i + 2) /\ cont(i + 3)
                  THEN <<((b - 240) * 262144) + ((bytes[i + 1] - 128) * 4096)
                         + ((bytes[i + 2] - 128) * 64) + (bytes[i + 3] - 128)>>
                       \o Utf8DecodeFrom(bytes, i + 4)
             ELSE <<65533>> \o Utf8DecodeFrom(bytes, i + 1)

Utf8Decode(bytes) == Utf8DecodeFrom(bytes, 1)

\* new TextDecoder(encoding).decode(asset), which node's sea.getAsset uses
\* for an encoding: the decoder consumes a leading byte order mark.
TextDecode(bytes) ==
    LET text == Utf8Decode(bytes)
    IN  IF text # <<>> /\ text[1] = 65279 THEN Tail(text) ELSE text

\* node's own sea.getAsset(key, encoding) on the raw bytes of the asset.
originalGetAsset(raw, encoding) ==
    IF encoding # "" THEN Returned(TextDecode(raw)) ELSE Returned(raw)

\* A sea.getAsset that falls back to the raw bytes when decryption fails.
patchedGetAssetFallback(encryptedAssets, key, raw, assetKey, encoding) ==
    LET decrypted == IF assetKey \in encryptedAssets THEN decryptAsset(raw, key) ELSE Threw
        bytes == IF decrypted.threw THEN raw ELSE decrypted.value
    IN  IF encoding # "" THEN Returned(Utf8Decode(bytes)) ELSE Returned(bytes)

\* The sea.getAsset that bootstrap() installs, on the raw bytes the blob
\* holds for assetKey; encoding is "" or "utf8".  originalGetAsset returns
\* the raw bytes, decoded when an encoding is given.
patchedGetAsset(encryptedAssets, key, raw, assetKey, encoding) ==
    IF assetKey \in encryptedAssets
    THEN LET decrypted == decryptAsset(raw, key) IN
         IF decrypted.threw THEN Threw
         ELSE IF encoding # "" THEN Returned(Utf8Decode(decrypted.value))
         ELSE decrypted
    ELSE originalGetAsset(raw, encoding)

\* The inputs of the encryption runs.
PlainBytes == {0, 65, 255}

Plaintexts == UNION { [1..n -> PlainBytes] : n \in 0..MaxPlainLen }

Keys == { [i \in 1..KeyLen |-> i], [i \in 1..KeyLen |-> ((7 * i) + 200) % 256] }

Ivs == { [i \in 1..IvLen |-> 0], [i \in 1..IvLen |-> (37 * i) % 256] }

\* The asset key of the encrypted asset of the encryption runs.
CryptoAssetKey == <<"c", ".", "j">>

(***************************************************************************)
(* Packaging: the two build pipelines (build.js, MultiTargetBuilder) with  *)
(* the encryption settings, and sea.getAsset in the executable they make.  *)
(***************************************************************************)
Str_manifest ==
    <<"s", "e", "a", "-", "m", "a", "n", "i", "f", "e", "s", "t", ".", "j", "s", "o", "n">>

\* The pattern test of encryptAssets: substring or suffix of the asset key.
ShouldExclude(assetKey, excludePatterns) ==
    \E i \in 1..Len(excludePatterns) :
        Includes(assetKey, excludePatterns[i]) \/ EndsWith(assetKey, excludePatterns[i])

\* An encryptAssets that does not skip binaries.
encryptAssetsAll(assetList, key, excludePatterns, ivs) ==
    LET sel == { i \in 1..Len(assetList) :
                    ~ShouldExclude(assetList[i].assetKey, excludePatterns) }
        at(k) == CHOOSE i \in sel : assetList[i].assetKey = k
    IN  [k \in { assetList[i].assetKey : i \in sel } |->
            encryptAsset(assetList[at(k)].content, key, ivs[at(k)])]

\* encryptAssets(assets, key, excludePatterns): the Map of asset key to
\* encrypted content; ivs[i] is the IV drawn for the i-th asset.
encryptAssets(assetList, key, excludePatterns, ivs) ==
    LET sel == { i \in 1..Len(assetList) :
                    /\ ~assetList[i].isBinary
                    /\ ~ShouldExclude(assetList[i].assetKey, excludePatterns) }
        at(k) == CHOOSE i \in sel : assetList[i].assetKey = k
    IN  [k \in { assetList[i].assetKey : i \in sel } |->
            encryptAsset(assetList[at(k)].content, key, ivs[at(k)])]

\* serializeManifest(manifest) as the content of the manifest asset.
serializeManifest(m) == <<"json", m>>

\* createSeaConfig / writeSeaConfigJson: asset key -> embedded content, the
\* manifest asset last.
SeaBlob(assetList, m) ==
    LET keys == { assetList[i].assetKey : i \in 1..Len(assetList) }
        last(k) == CHOOSE i \in 1..Len(assetList) :
                      /\ assetList[i].assetKey = k
                      /\ \A j \in (i + 1)..Len(assetList) : assetList[j].assetKey # k
    IN  [k \in keys \cup {Str_manifest} |->
            IF k = Str_manifest THEN serializeManifest(m) ELSE assetList[last(k)].content]

\* SEA_ENCRYPTION_KEY / SEA_ENCRYPTED_ASSETS as injected into the bootstrap.
NotInjected == [defined |-> FALSE, keys |-> {}, key |-> <<>>]

Injected(keys, key) == [defined |-> TRUE, keys |-> keys, key |-> key]

\* build() of build.js from the configuration on.
buildJs(cfg, key, ivs) ==
    LET encryptedMap ==
            IF cfg.encryptAssets
            THEN encryptAssets(cfg.assets, key, <<Str_manifest>> \o cfg.encryptExclude, ivs)
            ELSE <<>>
        encryptedAssetKeys == DOMAIN encryptedMap
        assets2 == [i \in 1..Len(cfg.assets) |->
                      IF cfg.assets[i].assetKey \in encryptedAssetKeys
                      THEN [cfg.assets[i] EXCEPT !.content = encryptedMap[cfg.assets[i].assetKey]]
                      ELSE cfg.assets[i]]
        m == generateManifest(assets2, DefaultConfig, BuildHost)
    IN  [manifest |-> m,
         blob |-> SeaBlob(assets2, m),
         injected |-> IF cfg.encryptAssets /\ encryptedAssetKeys # {}
                      THEN Injected(encryptedAssetKeys, key)
                      ELSE NotInjected]

\* MultiTargetBuilder: prepareFinalEntry and generateSEAForTarget.
buildTarget(cfg, key) ==
    LET m == generateManifest(cfg.assets, DefaultConfig, BuildHost)
    IN  [manifest |-> m,
         blob |-> SeaBlob(cfg.assets, m),
         injected |-> IF cfg.encryptAssets THEN Injected({}, key) ELSE NotInjected]

Package(cfg, key, ivs) ==
    IF cfg.pipeline = "build.js" THEN buildJs(cfg, key, ivs) ELSE buildTarget(cfg, key)

\* sea.getAsset(assetKey, encoding) in the executable: the patched one when
\* both constants are defined, node's own otherwise.
seaGetAsset(build, assetKey, encoding) ==
    IF build.injected.defined
    THEN patchedGetAsset(build.injected.keys, build.injected.key, build.blob[assetKey],
                         assetKey, encoding)
    ELSE originalGetAsset(build.blob[assetKey], encoding)

\* The files of the project the packaging runs draw from: an add-on, a JSON
\* file, a text file that starts with a byte order mark, an empty file.
PackageUniverse ==
    { Asset(<<"n", "/", "m">> \o Str_node, <<"/", "r", "/", "b">> \o Str_node, TRUE, <<0, 255>>),
      Asset(<<"c", ".", "j">>, <<"/", "p", "/", "c", ".", "j">>, FALSE, <<65>>),
      Asset(<<"t", ".", "t", "x", "t">>, <<"/", "p", "/", "t", ".", "t", "x", "t">>, FALSE,
            <<239, 187, 191, 65>>),
      Asset(<<"e", ".", "j">>, <<"/", "p", "/", "e", ".", "j">>, FALSE, <<>>) }

PackageAssetLists ==
    { l \in UNION { [1..n -> PackageUniverse] : n \in 1..MaxAssets } :
        \A i, j \in 1..Len(l) : i # j => l[i].assetKey # l[j].assetKey }

\* config.encryptExclude: none, a suffix, a glob as the README writes it.
ExcludeLists == { <<>>, << <<".", "t", "x", "t">> >>, << <<"*", ".", "t", "x", "t">> >> }


(***************************************************************************)
(* State.                                                                  *)
(***************************************************************************)
VARIABLES
    assets,              \* the asset list of the build
    target,              \* the build target (platform, arch)
    host,                \* process.platform / process.arch of the runs
    manifest,            \* the embedded manifest
    blob,                \* the embedded assets: asset key -> bytes
    disk,                \* the host's files: path -> content
    pc,                  \* where the process is
    run,                 \* the number of finished runs
    assetPathMapGlobal,  \* the redirect table
    cacheDirGlobal,
    nativeModuleMap,
    platformBinaries,    \* the selected entries, sorted
    idx,                 \* the entry the extraction loop is at
    ops,                 \* the file operations and native loads of this run
    err,                 \* the error that ended bootstrap ("none": none)
    prevOk,              \* the previous run finished bootstrap
    tamper,              \* what was done to the cache since the previous run
    cPc,                 \* encryption runs: where the asset is
    cPlain,              \* the asset's plaintext
    cKey,                \* SEA_ENCRYPTION_KEY
    cIv,                 \* the IV encryptAsset drew
    cRaw,                \* the bytes the blob holds for the asset
    cFlipped,            \* one bit of cRaw was changed
    cDecrypted,          \* what the runtime decryptAsset did with cRaw
    cResult,             \* what the patched sea.getAsset did
    pPc,                 \* packaging runs: where the run is
    pCfg,                \* the configuration and the scanned assets
    pBuild,              \* what the pipeline produced
    pRead,               \* a sea.getAsset call in the executable
    dPc,                 \* cache directory runs: where the run is
    dIn,                 \* process.env, the manifest and the binary
    dOut,                \* the cache directory and the extraction path
    vPc,                 \* development runs (plain node): where the run is
    vEnv,                \* the node binary and the files of the host
    vState,              \* what loading the bootstrap left behind
    vCall,               \* an fs or require call and its two outcomes
    mPc,                 \* manifest generation: where the call is
    mAssets,             \* the assets handed to generateManifest
    mResult,             \* what generateManifest did
    qPc,                 \* concurrent runs: where each process is
    qDisk,               \* the cache the processes share
    qProc,               \* the locals of each process
    qEnv,                \* the host and the executable the processes run
    sPc,                 \* asset scan: where the call is
    sArgs,               \* the arguments of scanAssets
    sOut,                \* the assets scanAssets returned
    nPc,                 \* snapshot mode: where the process is
    nEnv,                \* the host and the executable
    nRun,                \* the cache, the loop index and the redirect table
    nLog,                \* what has run so far, in order
    bPc,                 \* buildAll: where each target's build is
    bCfg,                \* the targets, the native modules and the configuration
    bFs,                 \* the files the builds share
    bSched,              \* the jobs ready to run and the pending reads and child processes
    bLocal,              \* the locals of each buildTarget call
    bBlob,               \* the blob generated for each target
    zPc,                 \* lazy placeholder: where the process is
    zEnv,                \* the required file and the binaries of the manifest
    zMap,                \* global.__seaNativeModuleMap
    zCell,               \* the closure of the placeholder
    zLog,                \* the dlopen calls and the property reads, in order
    wPc,                 \* SEA config: where the call is
    wIn,                 \* the assets and the temporary directory
    wOut,                \* the files written and the asset paths of the config
    gPc,                 \* configuration: where the build is
    gIn,                 \* the project's files and the command line
    gOut                 \* the loaded configuration and the manifest

vars == <<assets, target, host, manifest, blob, disk, pc, run, assetPathMapGlobal,
          cacheDirGlobal, nativeModuleMap, platformBinaries, idx, ops, err,
          prevOk, tamper, cPc, cPlain, cKey, cIv, cRaw, cFlipped, cDecrypted, cResult,
          pPc, pCfg, pBuild, pRead, dPc, dIn, dOut, vPc, vEnv, vState, vCall,
          mPc, mAssets, mResult, qPc, qDisk, qProc, qEnv,
          sPc, sArgs, sOut, nPc, nEnv, nRun, nLog, bPc, bCfg, bFs, bSched, bLocal, bBlob, zPc, zEnv, zMap, zCell, zLog, wPc, wIn, wOut, gPc, gIn, gOut>>

cryptoVars == <<cPc, cPlain, cKey, cIv, cRaw, cFlipped, cDecrypted, cResult>>

runVars == <<assets, target, host, manifest, blob, disk, pc, run, assetPathMapGlobal,
             cacheDirGlobal, nativeModuleMap, platformBinaries, idx, ops, err,
             prevOk, tamper>>

buildVars == <<assets, target, host, manifest, blob>>

pkgVars == <<pPc, pCfg, pBuild, pRead>>

dirVars == <<dPc, dIn, dOut>>

devVars == <<vPc, vEnv, vState, vCall>>

manVars == <<mPc, mAssets, mResult>>

concVars == <<qPc, qDisk, qProc, qEnv>>

NoTamper == [kind |-> "none", path |-> Null]

NoManifest ==
    [appName |-> <<>>, appVersion |-> <<>>, platform |-> "", arch |-> "",
     binaries |-> <<>>, allAssetKeys |-> <<>>, cacheLocation |-> <<>>]

\* No encryption run is modelled.
CryptoOff ==
    /\ cPc = "off"
    /\ cPlain = <<>>
    /\ cKey = <<>>
    /\ cIv = <<>>
    /\ cRaw = <<>>
    /\ cFlipped = FALSE
    /\ cDecrypted = Returned(<<>>)
    /\ cResult = Returned(<<>>)

\* No packaging run is modelled.
PackageOff ==
    /\ pPc = "off"
    /\ pCfg = <<>>
    /\ pBuild = <<>>
    /\ pRead = <<>>

\* No cache directory run is modelled.
CacheDirOff ==
    /\ dPc = "off"
    /\ dIn = <<>>
    /\ dOut = <<>>

\* No development run is modelled.
DevOff ==
    /\ vPc = "off"
    /\ vEnv = <<>>
    /\ vState = <<>>
    /\ vCall = <<>>

\* No generateManifest call is modelled.
ManifestOff ==
    /\ mPc = "off"
    /\ mAssets = <<>>
    /\ mResult = <<>>

\* No concurrent run is modelled.
ConcurrentOff ==
    /\ qPc = "off"
    /\ qDisk = <<>>
    /\ qProc = <<>>
    /\ qEnv = <<>>

scanVars == <<sPc, sArgs, sOut>>

ScanOff ==
    /\ sPc = "off"
    /\ sArgs = <<>>
    /\ sOut = <<>>

snapVars == <<nPc, nEnv, nRun, nLog>>

SnapshotOff ==
    /\ nPc = "off"
    /\ nEnv = <<>>
    /\ nRun = <<>>
    /\ nLog = <<>>

mtbVars == <<bPc, bCfg, bFs, bSched, bLocal, bBlob>>

MtbOff ==
    /\ bPc = "off"
    /\ bCfg = <<>>
    /\ bFs = <<>>
    /\ bSched = <<>>
    /\ bLocal = <<>>
    /\ bBlob = <<>>

lazyVars == <<zPc, zEnv, zMap, zCell, zLog>>

LazyOff ==
    /\ zPc = "off"
    /\ zEnv = <<>>
    /\ zMap = <<>>
    /\ zCell = <<>>
    /\ zLog = <<>>

seaVars == <<wPc, wIn, wOut>>

SeaConfigOff ==
    /\ wPc = "off"
    /\ wIn = <<>>
    /\ wOut = <<>>

cfgVars == <<gPc, gIn, gOut>>

ConfigOff ==
    /\ gPc = "off"
    /\ gIn = <<>>
    /\ gOut = <<>>

\* The variables of the specifications above, and of those below.
earlyVars == <<runVars, cryptoVars, pkgVars, dirVars, devVars, manVars, concVars>>

lateVars == <<scanVars, snapVars, mtbVars, lazyVars, seaVars, cfgVars>>

LateOff ==
    /\ ScanOff
    /\ SnapshotOff
    /\ MtbOff
    /\ LazyOff
    /\ SeaConfigOff
    /\ ConfigOff

scanRest == <<snapVars, mtbVars, lazyVars, seaVars, cfgVars>>

ScanRestOff ==
    /\ SnapshotOff
    /\ MtbOff
    /\ LazyOff
    /\ SeaConfigOff
    /\ ConfigOff

snapRest == <<scanVars, mtbVars, lazyVars, seaVars, cfgVars>>

SnapRestOff ==
    /\ ScanOff
    /\ MtbOff
    /\ LazyOff
    /\ SeaConfigOff
    /\ ConfigOff

mtbRest == <<scanVars, snapVars, lazyVars, seaVars, cfgVars>>

MtbRestOff ==
    /\ ScanOff
    /\ SnapshotOff
    /\ LazyOff
    /\ SeaConfigOff
    /\ ConfigOff

lazyRest == <<scanVars, snapVars, mtbVars, seaVars, cfgVars>>

LazyRestOff ==
    /\ ScanOff
    /\ SnapshotOff
    /\ MtbOff
    /\ SeaConfigOff
    /\ ConfigOff

seaRest == <<scanVars, snapVars, mtbVars, lazyVars, cfgVars>>

SeaRestOff ==
    /\ ScanOff
    /\ SnapshotOff
    /\ MtbOff
    /\ LazyOff
    /\ ConfigOff

cfgRest == <<scanVars, snapVars, mtbVars, lazyVars, seaVars>>

CfgRestOff ==
    /\ ScanOff
    /\ SnapshotOff
    /\ MtbOff
    /\ LazyOff
    /\ SeaConfigOff

Init ==
    /\ LateOff
    /\ assets \in AssetLists
    /\ target \in Targets
    /\ host \in Hosts
    /\ manifest = NoManifest
    /\ blob = <<>>
    /\ disk = <<>>
    /\ pc = "build"
    /\ run = 0
    /\ assetPathMapGlobal = <<>>
    /\ cacheDirGlobal = <<>>
    /\ nativeModuleMap = <<>>
    /\ platformBinaries = <<>>
    /\ idx = 1
    /\ ops = <<>>
    /\ err = "none"
    /\ prevOk = FALSE
    /\ tamper = NoTamper
    /\ CryptoOff
    /\ PackageOff
    /\ CacheDirOff
    /\ DevOff
    /\ ManifestOff
    /\ ConcurrentOff

\* The bytes the blob holds for each asset key: the source file as it is
\* when the blob is generated; `changed` is the asset (0: none) whose bytes
\* differ from the ones that were hashed.
EmbeddedAssets(assetList, changed) ==
    LET keys == { assetList[i].assetKey : i \in 1..Len(assetList) }
        at(k) == CHOOSE i \in 1..Len(assetList) : assetList[i].assetKey = k
    IN  [k \in keys |-> IF at(k) = changed THEN Stale ELSE assetList[at(k)].content]

\* The build of one target: the manifest and the blob.
Build ==
    /\ pc = "build"
    /\ manifest' = generateManifest(assets, DefaultConfig, target)
    /\ \E changed \in 0..Len(assets) :
          blob' = EmbeddedAssets(assets, changed)
    /\ pc' = "idle"
    /\ UNCHANGED <<lateVars, assets, target, host, disk, run, assetPathMapGlobal, cacheDirGlobal,
                   nativeModuleMap, platformBinaries, idx, ops, err, prevOk, tamper, cryptoVars,
                   pkgVars, dirVars, devVars, manVars, concVars>>

\* The start of the executable: the top of the bootstrap IIFE installs the
\* fs overrides over an empty redirect table.
Launch ==
    /\ pc = "idle"
    /\ run < MaxRuns
    /\ assetPathMapGlobal' = <<>>
    /\ cacheDirGlobal' = <<>>
    /\ nativeModuleMap' = <<>>
    /\ platformBinaries' = <<>>
    /\ idx' = 1
    /\ ops' = <<>>
    /\ err' = "none"
    /\ pc' = "overrides"
    /\ UNCHANGED <<lateVars, buildVars, disk, run, prevOk, tamper, cryptoVars,
                   pkgVars, dirVars, devVars, manVars, concVars>>

\* bootstrap() up to the extraction loop: the manifest is read, the entries
\* are filtered for the host and sorted by order.
BootstrapBegin ==
    /\ pc = "overrides"
    /\ platformBinaries' = SortByOrder(FilterPlatform(host, manifest.binaries))
    /\ idx' = 1
    /\ pc' = "extract"
    /\ UNCHANGED <<lateVars, buildVars, disk, run, assetPathMapGlobal, cacheDirGlobal,
                   nativeModuleMap, ops, err, prevOk, tamper, cryptoVars,
                   pkgVars, dirVars, devVars, manVars, concVars>>

cacheDir == getExtractionCacheDir(host, ProcessEnv(host), Cwd(host), manifest)

\* One iteration of the extraction loop.
ExtractStep ==
    /\ pc = "extract"
    /\ idx <= Len(platformBinaries)
    /\ LET binary == platformBinaries[idx]
           targetPath == PathJoin(host, cacheDir, binary.fileName)
           r == extractBinary(host, assetPathMapGlobal, cacheDirGlobal, disk, ops, blob,
                              binary.assetKey, targetPath, binary.hash)
           nameWithoutExt ==
               BasenameExt(host, binary.fileName, Extname(host, binary.fileName))
       IN  /\ disk' = r.disk
           /\ ops' = r.ops
           /\ err' = r.err
           /\ IF r.err = "none"
              THEN /\ nativeModuleMap' =
                        ObjSet(ObjSet(nativeModuleMap, binary.fileName, targetPath),
                               nameWithoutExt, targetPath)
                   /\ assetPathMapGlobal' =
                        ObjSet(assetPathMapGlobal, binary.assetKey, targetPath)
                   /\ idx' = idx + 1
                   /\ pc' = "extract"
              ELSE /\ pc' = "failed"
                   /\ UNCHANGED <<nativeModuleMap, assetPathMapGlobal, idx>>
    /\ UNCHANGED <<lateVars, buildVars, run, cacheDirGlobal, platformBinaries, prevOk, tamper,
                   cryptoVars,
                   pkgVars, dirVars, devVars, manVars, concVars>>

\* FinishBootstrap without the end of the extraction loop: application code
\* starts while entries are still to be extracted.
FinishBootstrapEarly ==
    /\ pc = "extract"
    /\ cacheDirGlobal' = cacheDir
    /\ ops' = IF host.platform = "win32"
              THEN ops \o DllPreloads(host, cacheDir, platformBinaries)
              ELSE ops
    /\ pc' = "app"
    /\ UNCHANGED <<lateVars, buildVars, disk, run, assetPathMapGlobal, nativeModuleMap,
                   platformBinaries, idx, err, prevOk, tamper, cryptoVars,
                   pkgVars, dirVars, devVars, manVars, concVars>>

\* The rest of bootstrap(): cacheDirGlobal, the Windows DLL preload, the
\* module-resolution override and the bindings shim; application code follows.
FinishBootstrap ==
    /\ pc = "extract"
    /\ idx > Len(platformBinaries)
    /\ cacheDirGlobal' = cacheDir
    /\ ops' = IF host.platform = "win32"
              THEN ops \o DllPreloads(host, cacheDir, platformBinaries)
              ELSE ops
    /\ pc' = "app"
    /\ UNCHANGED <<lateVars, buildVars, disk, run, assetPathMapGlobal, nativeModuleMap,
                   platformBinaries, idx, err, prevOk, tamper, cryptoVars,
                   pkgVars, dirVars, devVars, manVars, concVars>>

\* What application code asks the module system for.
Requests ==
    { <<"b">> \o Str_node, <<"m">> \o Str_node, <<"x">> \o Str_dll,
      <<"z">> \o Str_so, <<"z">> \o Str_so \o <<".", "1">>,
      <<".", "/", "r", "/", "b">> \o Str_node,
      <<".", "/", "v", "/", "m">> \o Str_node,
      <<"b">>, <<"m">>, <<"f", "s">> }

\* Application code loads a native module through require.
AppRequire ==
    /\ pc = "app"
    /\ \E request \in Requests :
          LET resolved == resolveFilename(host, nativeModuleMap, request) IN
          /\ resolved # Null
          /\ ops' = Append(ops, Op("dlopen", resolved, request))
    /\ pc' = "loaded"
    /\ UNCHANGED <<lateVars, buildVars, disk, run, assetPathMapGlobal, cacheDirGlobal,
                   nativeModuleMap, platformBinaries, idx, err, prevOk, tamper, cryptoVars,
                   pkgVars, dirVars, devVars, manVars, concVars>>

\* The process ends: after application code, or with the error bootstrap threw.
Exit ==
    /\ pc \in {"app", "loaded", "failed"}
    /\ prevOk' = (pc # "failed")
    /\ run' = run + 1
    /\ tamper' = NoTamper
    /\ pc' = "idle"
    /\ UNCHANGED <<lateVars, buildVars, disk, assetPathMapGlobal, cacheDirGlobal, nativeModuleMap,
                   platformBinaries, idx, ops, err, cryptoVars,
                   pkgVars, dirVars, devVars, manVars, concVars>>

\* Between two runs something outside the program alters or removes one
\* cached file.
Tamper ==
    /\ pc = "idle"
    /\ run >= 1
    /\ run < MaxRuns
    /\ tamper = NoTamper
    /\ \E p \in DOMAIN disk :
          /\ disk[p] # DirMark
          /\ \/ /\ disk[p] # Garbage
                /\ disk' = DiskPut(disk, p, Garbage)
                /\ tamper' = [kind |-> "alter", path |-> p]
             \/ /\ disk' = DiskRemove(disk, p)
                /\ tamper' = [kind |-> "delete", path |-> p]
    /\ UNCHANGED <<lateVars, buildVars, pc, run, assetPathMapGlobal, cacheDirGlobal, nativeModuleMap,
                   platformBinaries, idx, ops, err, prevOk, cryptoVars,
                   pkgVars, dirVars, devVars, manVars, concVars>>

Next ==
    \/ Build
    \/ Launch
    \/ BootstrapBegin
    \/ ExtractStep
    \/ FinishBootstrap
    \/ AppRequire
    \/ Exit
    \/ Tamper

Spec == Init /\ [][Next]_vars

\* The content of a file whose write was cut short.
Partial == "partial"

\* The process is killed during the extraction loop: before the entry at idx
\* is looked at, after its stale file was unlinked, or while writeFileSync is
\* writing it (a partial file is left).
Interrupt ==
    /\ pc = "extract"
    /\ run < MaxRuns
    /\ LET atEntry == idx <= Len(platformBinaries)
           binary == platformBinaries[idx]
           targetPath == PathJoin(host, cacheDir, binary.fileName)
           r == extractBinary(host, assetPathMapGlobal, cacheDirGlobal, disk, ops, blob,
                              binary.assetKey, targetPath, binary.hash)
           writes == atEntry /\ r.err = "none" /\ r.ops # ops
       IN  \/ disk' = disk
           \/ /\ writes
              /\ targetPath \in DOMAIN disk
              /\ disk' = DiskRemove(disk, targetPath)
           \/ /\ writes
              /\ disk' = DiskPut(r.disk, targetPath, Partial)
    /\ tamper' = [kind |-> "interrupt", path |-> <<>>]
    /\ prevOk' = FALSE
    /\ run' = run + 1
    /\ pc' = "idle"
    /\ UNCHANGED <<lateVars, buildVars, assetPathMapGlobal, cacheDirGlobal, nativeModuleMap,
                   platformBinaries, idx, ops, err, cryptoVars,
                   pkgVars, dirVars, devVars, manVars, concVars>>

NextInterrupt ==
    \/ Build
    \/ Launch
    \/ BootstrapBegin
    \/ ExtractStep
    \/ FinishBootstrap
    \/ AppRequire
    \/ Exit
    \/ Tamper
    \/ Interrupt

\* The runs of the executable, with runs that are killed during extraction.
SpecInterrupt == Init /\ [][NextInterrupt]_vars

(***************************************************************************)
(* The encryption runs: one non-binary asset is encrypted at build time,   *)
(* embedded, possibly damaged by one bit, and read at run time.            *)
(***************************************************************************)
RunsOff ==
    /\ assets = <<>>
    /\ target = BuildHost
    /\ host = BuildHost
    /\ manifest = NoManifest
    /\ blob = <<>>
    /\ disk = <<>>
    /\ pc = "off"
    /\ run = 0
    /\ assetPathMapGlobal = <<>>
    /\ cacheDirGlobal = <<>>
    /\ nativeModuleMap = <<>>
    /\ platformBinaries = <<>>
    /\ idx = 1
    /\ ops = <<>>
    /\ err = "none"
    /\ prevOk = FALSE
    /\ tamper = NoTamper

EarlyOff ==
    /\ RunsOff
    /\ CryptoOff
    /\ PackageOff
    /\ CacheDirOff
    /\ DevOff
    /\ ManifestOff
    /\ ConcurrentOff

InitCrypto ==
    /\ LateOff
    /\ RunsOff
    /\ PackageOff
    /\ CacheDirOff
    /\ DevOff
    /\ ManifestOff
    /\ ConcurrentOff
    /\ cPc = "build"
    /\ cPlain \in Plaintexts
    /\ cKey \in Keys
    /\ cIv = <<>>
    /\ cRaw = <<>>
    /\ cFlipped = FALSE
    /\ cDecrypted = Returned(<<>>)
    /\ cResult = Returned(<<>>)

\* encryptAssets at build time: the asset's content becomes
\* encryptAsset(content, key), under a fresh IV.
EncryptAtBuild ==
    /\ cPc = "build"
    /\ \E iv \in Ivs :
          /\ cIv' = iv
          /\ cRaw' = encryptAsset(cPlain, cKey, iv)
    /\ cPc' = "embedded"
    /\ UNCHANGED <<lateVars, runVars, pkgVars, dirVars, devVars, manVars, concVars, cPlain, cKey, cFlipped, cDecrypted, cResult>>

\* One bit of the embedded bytes changes.
FlipBit ==
    /\ cPc = "embedded"
    /\ ~cFlipped
    /\ \E pos \in 1..Len(cRaw), bit \in 0..7 :
          cRaw' = [cRaw EXCEPT ![pos] = Xor(@, Pow2(bit))]
    /\ cFlipped' = TRUE
    /\ UNCHANGED <<lateVars, runVars, pkgVars, dirVars, devVars, manVars, concVars, cPc, cPlain, cKey, cIv, cDecrypted, cResult>>

\* Application code calls the patched sea.getAsset(key, encoding).
GetAssetAtRuntime ==
    /\ cPc = "embedded"
    /\ cDecrypted' = decryptAsset(cRaw, cKey)
    /\ \E encoding \in {"", "utf8"} :
          cResult' = patchedGetAsset({CryptoAssetKey}, cKey, cRaw, CryptoAssetKey, encoding)
    /\ cPc' = "read"
    /\ UNCHANGED <<lateVars, runVars, pkgVars, dirVars, devVars, manVars, concVars, cPlain, cKey, cIv, cRaw, cFlipped>>

NextCrypto ==
    \/ EncryptAtBuild
    \/ FlipBit
    \/ GetAssetAtRuntime

SpecCrypto == InitCrypto /\ [][NextCrypto]_vars

(***************************************************************************)
(* The packaging runs.                                                     *)
(***************************************************************************)
InitPackage ==
    /\ LateOff
    /\ RunsOff
    /\ CryptoOff
    /\ CacheDirOff
    /\ DevOff
    /\ ManifestOff
    /\ ConcurrentOff
    /\ pPc = "config"
    /\ pCfg \in [pipeline : {"build.js", "MultiTargetBuilder"},
                 encryptAssets : BOOLEAN,
                 encryptExclude : ExcludeLists,
                 assets : PackageAssetLists]
    /\ pBuild = <<>>
    /\ pRead = <<>>

\* One build of the configured pipeline, and with it the build of the same
\* assets with encryptAssets disabled.
PackageBuild ==
    /\ pPc = "config"
    /\ \E key \in Keys, ivs \in [1..Len(pCfg.assets) -> Ivs] :
          pBuild' = [made |-> Package(pCfg, key, ivs),
                     plain |-> Package([pCfg EXCEPT !.encryptAssets = FALSE], key, ivs)]
    /\ pPc' = "built"
    /\ UNCHANGED <<lateVars, runVars, cryptoVars, dirVars, devVars, manVars, concVars, pCfg, pRead>>

\* Application code reads an embedded asset in both executables.
PackageGetAsset ==
    /\ pPc = "built"
    /\ \E i \in 1..Len(pCfg.assets), encoding \in {"", "utf8"} :
          pRead' = [asset |-> pCfg.assets[i],
                    encoding |-> encoding,
                    result |-> seaGetAsset(pBuild.made, pCfg.assets[i].assetKey, encoding),
                    reference |-> seaGetAsset(pBuild.plain, pCfg.assets[i].assetKey, encoding)]
    /\ pPc' = "read"
    /\ UNCHANGED <<lateVars, runVars, cryptoVars, dirVars, devVars, manVars, concVars, pCfg, pBuild>>

NextPackage ==
    \/ PackageBuild
    \/ PackageGetAsset

SpecPackage == InitPackage /\ [][NextPackage]_vars

(***************************************************************************)
(* The cache directory: getExtractionCacheDir and the target path of        *)
(* extractBinary under every source of the cache root.                      *)
(***************************************************************************)

\* The cacheLocation values of the configurations: none, the three variable
\* syntaxes, an absolute path, a relative path, an unset variable.
CacheLocations ==
    {<<>>,
     <<"$", "H", "O", "M", "E", "/", "k">>,
     <<"$", "{", "H", "O", "M", "E", "}", "/", "k">>,
     <<"%", "H", "O", "M", "E", "%", "/", "k">>,
     <<"/", "k">>,
     <<"k">>,
     <<"$", "X", "/", "k">>}

\* The environments: each of SEACACHE, LOCALAPPDATA and HOME set or not.
Environments(hst) ==
    {(Str_SEACACHE :> sc) @@ (Str_LOCALAPPDATA :> la) @@ (Str_HOME :> hm) :
        sc \in {<<>>, <<PathSep(hst), "c">>},
        la \in {<<>>, <<PathSep(hst), "l">>},
        hm \in {<<>>, <<PathSep(hst), "h">>}}

InitCacheDir ==
    /\ LateOff
    /\ RunsOff
    /\ CryptoOff
    /\ PackageOff
    /\ DevOff
    /\ ManifestOff
    /\ ConcurrentOff
    /\ dPc = "env"
    /\ \E hst \in Hosts :
          dIn \in [host : {hst},
                   env : Environments(hst),
                   cwd : {Cwd(hst)},
                   config : [_packageName : {<<>>, <<"s">>},
                             _packageVersion : {<<>>, <<"2">>},
                             cacheLocation : CacheLocations],
                   fileName : {<<"b", ".", "n", "o", "d", "e">>}]
    /\ dOut = <<>>

\* bootstrap(): the manifest of the executable built for this host gives the
\* cache directory.
ResolveCacheDir ==
    /\ dPc = "env"
    /\ LET m == generateManifest(<<>>, dIn.config, dIn.host)
       IN  dOut' = [manifest |-> m,
                    cacheDir |-> getExtractionCacheDir(dIn.host, dIn.env, dIn.cwd, m),
                    targetPath |-> <<>>]
    /\ dPc' = "dir"
    /\ UNCHANGED <<lateVars, runVars, cryptoVars, pkgVars, devVars, manVars, concVars, dIn>>

\* extractBinary: targetPath = path.join(cacheDir, fileName)
ExtractTo ==
    /\ dPc = "dir"
    /\ dOut' = [dOut EXCEPT !.targetPath = PathJoin(dIn.host, dOut.cacheDir, dIn.fileName)]
    /\ dPc' = "extracted"
    /\ UNCHANGED <<lateVars, runVars, cryptoVars, pkgVars, devVars, manVars, concVars, dIn>>

NextCacheDir ==
    \/ ResolveCacheDir
    \/ ExtractTo

SpecCacheDir == InitCacheDir /\ [][NextCacheDir]_vars

(***************************************************************************)
(* A development run: the bootstrap loaded by a plain node binary, then     *)
(* the application's fs calls.                                              *)
(***************************************************************************)

DevFile(hst) == <<PathSep(hst), "a", PathSep(hst), "f">>

\* The arguments of the application's fs calls.
FsArgs(hst) ==
    {FsArg("string", DevFile(hst)),
     FsArg("string", <<PathSep(hst), "a", PathSep(hst), "g">>),
     FsArg("string", <<PathSep(hst), "a", PathSep(hst), "x", ".", "n", "o", "d", "e">>),
     FsArg("string", <<>>),
     FsArg("Buffer", DevFile(hst)),
     FsArg("URL", DevFile(hst)),
     FsArg("fd", <<"0">>),
     FsArg("fd", <<"3">>)}

FsFunctions == {"existsSync", "readFileSync", "realpathSync", "realpathSync.native"}

\* A plain node binary (no blob injected); seaModule: whether this Node
\* release has the node:sea builtin.
InitDev ==
    /\ LateOff
    /\ RunsOff
    /\ CryptoOff
    /\ PackageOff
    /\ CacheDirOff
    /\ ManifestOff
    /\ ConcurrentOff
    /\ vPc = "start"
    /\ \E hst \in Hosts :
          vEnv \in [host : {hst},
                    seaModule : BOOLEAN,
                    disk : {(DevFile(hst) :> <<c>>) : c \in {65, 66}},
                    fds : {(<<"0">> :> DevFile(hst)) @@ (<<"3">> :> DevFile(hst)),
                           (<<"0">> :> DevFile(hst))}]
    /\ vState = <<>>
    /\ vCall = <<>>

\* The bootstrap IIFE: Phase 1 replaces the fs functions, the probe requires
\* node:sea, the dispatch runs bootstrap() when the probe succeeded; outside a
\* packaged executable sea.getAsset('sea-manifest.json') throws.
LoadBootstrap ==
    /\ vPc = "start"
    /\ LET isSEA == vEnv.seaModule
       IN  /\ vState' = [overridden |-> TRUE,
                         isSEA |-> isSEA,
                         threw |-> isSEA,
                         assetAccess |-> isSEA,
                         extracted |-> FALSE,
                         assetPathMapGlobal |-> <<>>,
                         cacheDirGlobal |-> <<>>,
                         resolveFilenameHooked |-> FALSE]
           /\ vPc' = IF isSEA THEN "failed" ELSE "loaded"
    /\ UNCHANGED <<lateVars, runVars, cryptoVars, pkgVars, dirVars, manVars, concVars, vEnv, vCall>>

\* Application code calls one of the fs functions; reference is the same call
\* in a process that never loaded the bootstrap.
FsCall ==
    /\ vPc = "loaded"
    /\ \E fn \in FsFunctions, arg \in FsArgs(vEnv.host) :
          vCall' = [fn |-> fn,
                    arg |-> arg,
                    result |-> overriddenFs(vEnv.host, vState.assetPathMapGlobal,
                                            vState.cacheDirGlobal, vEnv.disk, vEnv.fds,
                                            fn, arg),
                    reference |-> originalFs(vEnv.disk, vEnv.fds, fn, arg)]
    /\ vPc' = "called"
    /\ UNCHANGED <<lateVars, runVars, cryptoVars, pkgVars, dirVars, manVars, concVars, vEnv, vState>>

NextDev ==
    \/ LoadBootstrap
    \/ FsCall

SpecDev == InitDev /\ [][NextDev]_vars

(***************************************************************************)
(* generateManifest as a function of its caller's asset list.               *)
(***************************************************************************)

\* An asset whose hash was never computed (hash: undefined).
WithoutHash(a) == [a EXCEPT !.hash = Null]

\* The assets a caller can hand to generateManifest: those of the project,
\* and binary ones without a hash.
ManifestUniverse ==
    AssetUniverse \cup {WithoutHash(a) : a \in {b \in AssetUniverse : b.isBinary}}

InitManifest ==
    /\ LateOff
    /\ RunsOff
    /\ CryptoOff
    /\ PackageOff
    /\ CacheDirOff
    /\ DevOff
    /\ ConcurrentOff
    /\ mPc = "input"
    /\ mAssets \in [assets : { l \in UNION { [1..n -> ManifestUniverse] : n \in 1..MaxAssets } :
                                \A i, j \in 1..Len(l) :
                                    i # j => l[i].assetKey # l[j].assetKey },
                    config : {DefaultConfig},
                    target : Targets]
    /\ mResult = <<>>

\* const manifest = generateManifest(assets, config, platform, arch)
GenerateManifest ==
    /\ mPc = "input"
    /\ mResult' = [threw |-> FALSE,
                   manifest |-> generateManifest(mAssets.assets, mAssets.config, mAssets.target),
                   json |-> <<>>]
    /\ mPc' = "manifest"
    /\ UNCHANGED <<lateVars, runVars, cryptoVars, pkgVars, dirVars, devVars, concVars, mAssets>>

\* serializeManifest(manifest): the JSON embedded as sea-manifest.json
SerializeManifest ==
    /\ mPc = "manifest"
    /\ ~mResult.threw
    /\ mResult' = [mResult EXCEPT !.json = serializeManifest(mResult.manifest)]
    /\ mPc' = "json"
    /\ UNCHANGED <<lateVars, runVars, cryptoVars, pkgVars, dirVars, devVars, concVars, mAssets>>

NextManifest ==
    \/ GenerateManifest
    \/ SerializeManifest

SpecManifest == InitManifest /\ [][NextManifest]_vars

(***************************************************************************)
(* Two processes of the same executable run bootstrap at the same time on   *)
(* an empty cache; every fs call of extractBinary is one step.              *)
(***************************************************************************)

Procs == {"P1", "P2"}

InitConcurrent ==
    /\ LateOff
    /\ RunsOff
    /\ CryptoOff
    /\ PackageOff
    /\ CacheDirOff
    /\ DevOff
    /\ ManifestOff
    /\ \E hst \in Hosts, l \in AssetLists :
          LET m == generateManifest(l, DefaultConfig, hst)
          IN  /\ m.binaries # <<>>
              /\ qEnv = [host |-> hst,
                         blob |-> EmbeddedAssets(l, 0),
                         platformBinaries |-> SortByOrder(FilterPlatform(hst, m.binaries)),
                         cacheDir |-> getExtractionCacheDir(hst, ProcessEnv(hst), Cwd(hst), m)]
    /\ qDisk = <<>>
    /\ qPc = [p \in Procs |-> "exists"]
    /\ qProc = [p \in Procs |-> [idx |-> 1, assetPathMapGlobal |-> <<>>, linked |-> FALSE,
                                 err |-> "none"]]

\* The entry process p is extracting, and its target path.
QBinary(p) == qEnv.platformBinaries[qProc[p].idx]

QTargetPath(p) == PathJoin(qEnv.host, qEnv.cacheDir, QBinary(p).fileName)

\* extractBinary returned true: the loop records the entry and goes on.
QEntryDone(p) ==
    /\ qProc' = [qProc EXCEPT
                    ![p].assetPathMapGlobal = ObjSet(@, QBinary(p).assetKey, QTargetPath(p)),
                    ![p].idx = @ + 1,
                    ![p].linked = FALSE]
    /\ qPc' = [qPc EXCEPT ![p] = IF qProc[p].idx < Len(qEnv.platformBinaries)
                                 THEN "exists" ELSE "done"]

\* A call of process p threw: bootstrap fails.
QThrow(p, e) ==
    /\ qProc' = [qProc EXCEPT ![p].err = e]
    /\ qPc' = [qPc EXCEPT ![p] = "failed"]

\* if (fs.existsSync(targetPath))
QExists(p) ==
    /\ qPc[p] = "exists"
    /\ qPc' = [qPc EXCEPT ![p] =
                  IF existsSync(qEnv.host, qProc[p].assetPathMapGlobal, <<>>, qDisk,
                                QTargetPath(p))
                  THEN "hash" ELSE "fetch"]
    /\ UNCHANGED <<lateVars, runVars, cryptoVars, pkgVars, dirVars, devVars, manVars,
                   qDisk, qProc, qEnv>>

\* const existingHash = hashFile(targetPath); if (existingHash === expectedHash) return true
QHash(p) ==
    /\ qPc[p] = "hash"
    /\ IF ReadTarget(qEnv.host, qProc[p].assetPathMapGlobal, QTargetPath(p)) \notin DOMAIN qDisk
       THEN QThrow(p, "ENOENT")
       ELSE IF hashFile(qEnv.host, qProc[p].assetPathMapGlobal, qDisk, QTargetPath(p))
               = QBinary(p).hash
       THEN QEntryDone(p)
       ELSE /\ qPc' = [qPc EXCEPT ![p] = "unlink"]
            /\ UNCHANGED qProc
    /\ UNCHANGED <<lateVars, runVars, cryptoVars, pkgVars, dirVars, devVars, manVars, qDisk, qEnv>>

\* fs.unlinkSync(targetPath): a process that has the file open keeps writing
\* to the unlinked file.
QUnlink(p) ==
    /\ qPc[p] = "unlink"
    /\ IF QTargetPath(p) \notin DOMAIN qDisk
       THEN /\ QThrow(p, "ENOENT")
            /\ UNCHANGED qDisk
       ELSE /\ qDisk' = DiskRemove(qDisk, QTargetPath(p))
            /\ qProc' = [o \in Procs |->
                            IF o # p /\ qPc[o] = "write" /\ QTargetPath(o) = QTargetPath(p)
                            THEN [qProc[o] EXCEPT !.linked = FALSE]
                            ELSE qProc[o]]
            /\ qPc' = [qPc EXCEPT ![p] = "fetch"]
    /\ UNCHANGED <<lateVars, runVars, cryptoVars, pkgVars, dirVars, devVars, manVars, qEnv>>

\* sea.getRawAsset, the hash check of the buffer, and mkdirSync of the cache
\* directory when existsSync(dir) is false.
QFetch(p) ==
    /\ qPc[p] = "fetch"
    /\ LET dir == Dirname(qEnv.host, QTargetPath(p)) IN
       IF QBinary(p).assetKey \notin DOMAIN qEnv.blob
       THEN /\ QThrow(p, "missing")
            /\ UNCHANGED qDisk
       ELSE IF Sha256(qEnv.blob[QBinary(p).assetKey]) # QBinary(p).hash
       THEN /\ QThrow(p, "integrity")
            /\ UNCHANGED qDisk
       ELSE /\ qDisk' = IF existsSync(qEnv.host, qProc[p].assetPathMapGlobal, <<>>, qDisk, dir)
                        THEN qDisk
                        ELSE DiskPut(qDisk, dir, DirMark)
            /\ qPc' = [qPc EXCEPT ![p] = "open"]
            /\ UNCHANGED qProc
    /\ UNCHANGED <<lateVars, runVars, cryptoVars, pkgVars, dirVars, devVars, manVars, qEnv>>

\* fs.writeFileSync(targetPath, buffer), first half: the file is created or
\* truncated.
QOpen(p) ==
    /\ qPc[p] = "open"
    /\ qDisk' = DiskPut(qDisk, QTargetPath(p), Partial)
    /\ qProc' = [qProc EXCEPT ![p].linked = TRUE]
    /\ qPc' = [qPc EXCEPT ![p] = "write"]
    /\ UNCHANGED <<lateVars, runVars, cryptoVars, pkgVars, dirVars, devVars, manVars, qEnv>>

\* fs.writeFileSync, second half: the bytes are in the file p opened; the
\* file is whole once no other process is still writing it from the start.
QWrite(p) ==
    /\ qPc[p] = "write"
    /\ qDisk' = IF ~qProc[p].linked THEN qDisk
                ELSE IF \E o \in Procs \ {p} :
                            /\ qPc[o] = "write"
                            /\ qProc[o].linked
                            /\ QTargetPath(o) = QTargetPath(p)
                THEN qDisk
                ELSE DiskPut(qDisk, QTargetPath(p), qEnv.blob[QBinary(p).assetKey])
    /\ IF qEnv.host.platform # "win32"
       THEN /\ qPc' = [qPc EXCEPT ![p] = "chmod"]
            /\ UNCHANGED qProc
       ELSE QEntryDone(p)
    /\ UNCHANGED <<lateVars, runVars, cryptoVars, pkgVars, dirVars, devVars, manVars, qEnv>>

\* fs.chmodSync(targetPath, 0o755)
QChmod(p) ==
    /\ qPc[p] = "chmod"
    /\ IF QTargetPath(p) \notin DOMAIN qDisk
       THEN QThrow(p, "ENOENT")
       ELSE QEntryDone(p)
    /\ UNCHANGED <<lateVars, runVars, cryptoVars, pkgVars, dirVars, devVars, manVars, qDisk, qEnv>>

NextConcurrent ==
    \/ \E p \in Procs : QExists(p)
    \/ \E p \in Procs : QHash(p)
    \/ \E p \in Procs : QUnlink(p)
    \/ \E p \in Procs : QFetch(p)
    \/ \E p \in Procs : QOpen(p)
    \/ \E p \in Procs : QWrite(p)
    \/ \E p \in Procs : QChmod(p)

SpecConcurrent == InitConcurrent /\ [][NextConcurrent]_vars

(***************************************************************************)
(* scanAssets on a project directory, for every choice of patterns.         *)
(***************************************************************************)

\* The files of the project, relative to its root, in directory-walk order.
ProjectFiles ==
    << <<"R", ".", "m", "d">>,
       <<"a", ".", "j", "s">>,
       <<"s", "/", "a", ".", "j", "s">>,
       <<"s", "/", "b", ".", "n", "o", "d", "e">>,
       <<"t", "/", "t", ".", "j", "s">> >>

\* The entries of the assets array of a configuration.
AssetPatternPool ==
    { <<".", "/", "*", "*", "/", "*">>,
      <<"s", "/", "*">>,
      <<"*", "*", "/", "*", ".", "j", "s">>,
      <<"!", "*", "*", "/", "*", ".", "m", "d">>,
      <<"!", "t", "/", "*", "*">>,
      <<"!", "*", "*", "/", "a", ".", "*">> }

\* The legacy exclude parameter.
ExcludePool ==
    { <<>>,
      << <<"*", "*", "/", "*", ".", "m", "d">> >>,
      << <<"t", "/", "*", "*">> >> }

InitScan ==
    /\ EarlyOff
    /\ ScanRestOff
    /\ sPc = "args"
    /\ \E hst \in Hosts :
          sArgs \in [host : {hst},
                     assetPatterns : UNION { [1..n -> AssetPatternPool] : n \in 1..MaxPatterns },
                     binaryPatterns : {<<>>},
                     excludePatterns : ExcludePool,
                     projectRoot : {<<PathSep(hst), "p">>}]
    /\ sOut = <<>>

\* const assets = await scanAssets(config.assets, config.binaries, config.exclude, projectRoot)
ScanAssets ==
    /\ sPc = "args"
    /\ sOut' = scanAssets(sArgs.host, ProjectFiles, sArgs.assetPatterns, sArgs.binaryPatterns,
                          sArgs.excludePatterns, sArgs.projectRoot)
    /\ sPc' = "scanned"
    /\ UNCHANGED <<earlyVars, scanRest, sArgs>>

NextScan == ScanAssets

SpecScan == InitScan /\ [][NextScan]_vars

(***************************************************************************)
(* Snapshot mode: the bundle runs once while the startup snapshot is built, *)
(* the deserialized main function runs when the executable starts.          *)
(***************************************************************************)

InitSnapshot ==
    /\ EarlyOff
    /\ SnapRestOff
    /\ nPc = "building"
    /\ \E hst \in Hosts, l \in AssetLists, changed \in 0..MaxAssets :
          LET m == generateManifest(l, DefaultConfig, hst)
          IN  /\ changed <= Len(l)
              /\ nEnv = [host |-> hst,
                         blob |-> EmbeddedAssets(l, changed),
                         platformBinaries |-> SortByOrder(FilterPlatform(hst, m.binaries)),
                         cacheDir |-> getExtractionCacheDir(hst, ProcessEnv(hst), Cwd(hst), m)]
    /\ nRun = [disk |-> <<>>, idx |-> 1, assetPathMapGlobal |-> <<>>, ops |-> <<>>,
               err |-> "none"]
    /\ nLog = <<>>

\* The bootstrap IIFE while the snapshot is built: the fs overrides, the
\* probe, isBuildingSnapshot() true, setupNodeExtensionHandler and the wrapper
\* around v8.startupSnapshot.setDeserializeMainFunction.
SnapLoadBundle ==
    /\ nPc = "building"
    /\ nLog' = nLog \o <<"overrides", "probe", "nodeExtensionHandler", "wrap">>
    /\ nPc' = "wrapped"
    /\ UNCHANGED <<earlyVars, snapRest, nEnv, nRun>>

\* The application entry of the bundle calls
\* v8.startupSnapshot.setDeserializeMainFunction(callback): the wrapper hands
\* () => { bootstrap(); callback(); } to the original function.
SnapRegister ==
    /\ nPc = "wrapped"
    /\ nLog' = Append(nLog, "register")
    /\ nPc' = "registered"
    /\ UNCHANGED <<earlyVars, snapRest, nEnv, nRun>>

\* The executable starts: Node deserializes the snapshot and calls the
\* registered function, which starts bootstrap(): the manifest is read.
SnapDeserialize ==
    /\ nPc = "registered"
    /\ nLog' = nLog \o <<"main", "bootstrap", "getAsset">>
    /\ nPc' = "bootstrap"
    /\ UNCHANGED <<earlyVars, snapRest, nEnv, nRun>>

\* One iteration of the extraction loop of bootstrap().
SnapExtract ==
    /\ nPc = "bootstrap"
    /\ nRun.idx <= Len(nEnv.platformBinaries)
    /\ LET binary == nEnv.platformBinaries[nRun.idx]
           targetPath == PathJoin(nEnv.host, nEnv.cacheDir, binary.fileName)
           r == extractBinary(nEnv.host, nRun.assetPathMapGlobal, <<>>, nRun.disk, nRun.ops,
                              nEnv.blob, binary.assetKey, targetPath, binary.hash)
       IN  /\ nRun' = [disk |-> r.disk,
                       ops |-> r.ops,
                       err |-> r.err,
                       idx |-> IF r.err = "none" THEN nRun.idx + 1 ELSE nRun.idx,
                       assetPathMapGlobal |->
                           IF r.err = "none"
                           THEN ObjSet(nRun.assetPathMapGlobal, binary.assetKey, targetPath)
                           ELSE nRun.assetPathMapGlobal]
           /\ nLog' = Append(nLog, IF r.err = "none" THEN "extract" ELSE "throw")
           /\ nPc' = IF r.err = "none" THEN "bootstrap" ELSE "failed"
    /\ UNCHANGED <<earlyVars, snapRest, nEnv>>

\* The wrapper without the wait for bootstrap(): callback() first.
SnapCallbackEarly ==
    /\ nPc = "bootstrap"
    /\ nLog' = Append(nLog, "callback")
    /\ nPc' = "app"
    /\ UNCHANGED <<earlyVars, snapRest, nEnv, nRun>>

\* bootstrap() returned: the wrapper calls the application's callback.
SnapCallback ==
    /\ nPc = "bootstrap"
    /\ nRun.idx > Len(nEnv.platformBinaries)
    /\ nLog' = Append(nLog, "callback")
    /\ nPc' = "app"
    /\ UNCHANGED <<earlyVars, snapRest, nEnv, nRun>>

NextSnapshot ==
    \/ SnapLoadBundle
    \/ SnapRegister
    \/ SnapDeserialize
    \/ SnapExtract
    \/ SnapCallback

SpecSnapshot == InitSnapshot /\ [][NextSnapshot]_vars

(***************************************************************************)
(* MultiTargetBuilder.buildAll: one buildTarget call per output, all       *)
(* started by outputs.map and joined by Promise.all                        *)
(* (multi-target-builder.mjs).  A job runs from one await to the next; a   *)
(* continuation of an await goes to the end of the job queue, a stream read *)
(* or a child process completes at any later time.                         *)
(***************************************************************************)

\* config.outputs after parseTarget.
BuildOutputs ==
    <<[platform |-> "linux", arch |-> "x64"], [platform |-> "win32", arch |-> "x64"]>>

\* The native modules the bundler detected, in the Map's iteration order.
NativeModules == <<"a", "b">>

\* findBuiltBinary: <packageRoot>/build/Release/<name>.node, one path per
\* module whatever the target.
BuiltPath(m) == <<"/", m, "/", "r", "/", m>> \o Str_node

\* BuildCache: <cacheDir>/natives/<sha256(moduleRoot + target)>.node.
CachePath(i, m) == <<"/", "c", "/", m, BuildOutputs[i].platform>> \o Str_node

\* bundledPath.replace('.js', '-final.js'): one path for all targets.
FinalPath == <<"/", "o", "/", "e", "-", "f", ".", "j", "s">>

\* The binary seabox-rebuild.mjs --target <target> leaves in build/Release.
RebuiltBytes(m, tgt) == <<"built", m, tgt.platform>>

\* generateEncryptionKey(): random bytes, a different key on every call.
GeneratedKey(i) == <<"key", i>>

\* bundleEntry(entryContent, augmentedBootstrap, ...): the bootstrap, with
\* the key of this call when encryptAssets is set, and the application.
FinalEntry(encrypt, i) ==
    [bootstrap |-> IF encrypt THEN GeneratedKey(i) ELSE <<>>, entry |-> "bundle"]

\* fs.existsSync on the shared files.
BExists(files, p) == p \in DOMAIN files

\* assetMap.set(asset.assetKey, asset) over the list, Array.from(values()):
\* first insertion keeps the place, the last value wins.
RECURSIVE DedupeByKey(_, _)
DedupeByKey(l, acc) ==
    IF l = <<>> THEN acc
    ELSE LET a == Head(l)
             at == { i \in 1..Len(acc) : acc[i].assetKey = a.assetKey }
         IN  DedupeByKey(Tail(l),
                IF at = {} THEN Append(acc, a)
                ELSE [i \in 1..Len(acc) |-> IF i \in at THEN a ELSE acc[i]])

\* writeSeaConfigJson for file-based assets (jsonConfig.assets[key] =
\* sourcePath) and node --experimental-sea-config reading each path when the
\* child process runs.
GeneratedBlob(files, mainPath, assetList, m) ==
    [main |-> files[mainPath],
     manifest |-> m,
     assets |-> [k \in { assetList[i].assetKey : i \in 1..Len(assetList) } |->
                    LET i == CHOOSE j \in 1..Len(assetList) : assetList[j].assetKey = k
                    IN  files[assetList[i].sourcePath]]]

NoBlob == [main |-> <<>>, manifest |-> NoManifest, assets |-> <<>>]

InitBuild ==
    /\ EarlyOff
    /\ MtbRestOff
    /\ bPc = [i \in 1..Len(BuildOutputs) |-> "rebuild"]
    /\ \E encrypt \in BOOLEAN, cached \in SUBSET ((1..Len(BuildOutputs)) \X (1..Len(NativeModules))) :
          /\ bCfg = [encryptAssets |-> encrypt]
          /\ bFs = [p \in { CachePath(c[1], NativeModules[c[2]]) : c \in cached } |->
                      LET c == CHOOSE d \in cached : CachePath(d[1], NativeModules[d[2]]) = p
                      IN  RebuiltBytes(NativeModules[c[2]], BuildOutputs[c[1]])]
    \* outputs.map calls buildTarget for each output in order
    /\ bSched = [queue |-> [i \in 1..Len(BuildOutputs) |-> i], io |-> {}]
    /\ bLocal = [i \in 1..Len(BuildOutputs) |->
                    [k |-> 1, sourcePath |-> <<>>, rebuiltAssets |-> <<>>,
                     finalEntry |-> <<>>, allAssets |-> <<>>, manifest |-> NoManifest]]
    /\ bBlob = [i \in 1..Len(BuildOutputs) |-> NoBlob]

\* The job at the head of the queue.
BRunning(i) == bSched.queue # <<>> /\ Head(bSched.queue) = i

\* The job ends at an await whose promise is already settled.
BYield(i) == [bSched EXCEPT !.queue = Append(Tail(@), i)]

\* The job ends at an await on a stream or a child process.
BWait(i) == [bSched EXCEPT !.queue = Tail(@), !.io = @ \cup {i}]

\* rebuildNativeModulesForTarget, loop head with a cached build: the asset's
\* sourcePath is the cache file, computeHash(cachedBuild) starts.
BuildCached(i) ==
    /\ BRunning(i) /\ bPc[i] = "rebuild"
    /\ bLocal[i].k <= Len(NativeModules)
    /\ BExists(bFs, CachePath(i, NativeModules[bLocal[i].k]))
    /\ bLocal' = [bLocal EXCEPT ![i].sourcePath = CachePath(i, NativeModules[bLocal[i].k])]
    /\ bPc' = [bPc EXCEPT ![i] = "hash"]
    /\ bSched' = BWait(i)
    /\ UNCHANGED <<earlyVars, mtbRest, bCfg, bFs, bBlob>>

\* rebuildNativeModulesForTarget, loop head without a cached build:
\* rebuildNativeModule runs seabox-rebuild with execSync.
BuildRebuild(i) ==
    /\ BRunning(i) /\ bPc[i] = "rebuild"
    /\ bLocal[i].k <= Len(NativeModules)
    /\ ~BExists(bFs, CachePath(i, NativeModules[bLocal[i].k]))
    /\ LET m == NativeModules[bLocal[i].k]
       IN  bFs' = (BuiltPath(m) :> RebuiltBytes(m, BuildOutputs[i])) @@ bFs
    /\ bPc' = [bPc EXCEPT ![i] = "find"]
    /\ bSched' = BYield(i)
    /\ UNCHANGED <<earlyVars, mtbRest, bCfg, bLocal, bBlob>>

\* await this.findBuiltBinary(moduleInfo, target)
BuildFind(i) ==
    /\ BRunning(i) /\ bPc[i] = "find"
    /\ bLocal' = [bLocal EXCEPT ![i].sourcePath = BuiltPath(NativeModules[bLocal[i].k])]
    /\ bPc' = [bPc EXCEPT ![i] = "cache"]
    /\ bSched' = BYield(i)
    /\ UNCHANGED <<earlyVars, mtbRest, bCfg, bFs, bBlob>>

\* cacheNativeBuild copies the built binary, computeHash(builtPath) starts.
BuildCache(i) ==
    /\ BRunning(i) /\ bPc[i] = "cache"
    /\ bFs' = (CachePath(i, NativeModules[bLocal[i].k]) :> bFs[bLocal[i].sourcePath]) @@ bFs
    /\ bPc' = [bPc EXCEPT ![i] = "hash"]
    /\ bSched' = BWait(i)
    /\ UNCHANGED <<earlyVars, mtbRest, bCfg, bLocal, bBlob>>

\* computeHash: the read stream ends and the promise resolves with the
\* SHA-256 of what the file held; rebuiltAssets.push({...}).
BuildHashDone(i) ==
    /\ i \in bSched.io /\ bPc[i] = "hash"
    /\ LET m == NativeModules[bLocal[i].k]
       IN  bLocal' = [bLocal EXCEPT
              ![i].rebuiltAssets = Append(@,
                   [sourcePath |-> bLocal[i].sourcePath,
                    assetKey |-> <<"n", "/", m>> \o Str_node,
                    isBinary |-> TRUE,
                    hash |-> Sha256(bFs[bLocal[i].sourcePath])]),
              ![i].k = @ + 1]
    /\ bPc' = [bPc EXCEPT ![i] = "rebuild"]
    /\ bSched' = [bSched EXCEPT !.io = @ \ {i}, !.queue = Append(@, i)]
    /\ UNCHANGED <<earlyVars, mtbRest, bCfg, bFs, bBlob>>

\* The loop is over: rebuildNativeModulesForTarget returns.
BuildRebuilt(i) ==
    /\ BRunning(i) /\ bPc[i] = "rebuild"
    /\ bLocal[i].k > Len(NativeModules)
    /\ bPc' = [bPc EXCEPT ![i] = "collectConfig"]
    /\ bSched' = BYield(i)
    /\ UNCHANGED <<earlyVars, mtbRest, bCfg, bFs, bLocal, bBlob>>

\* collectConfigAssets, collectDetectedAssets and collectPlatformLibraries
\* of a project without configured, detected or library assets: each
\* returns [] and buildTarget awaits it.
BuildCollect(i) ==
    /\ BRunning(i) /\ bPc[i] \in {"collectConfig", "collectDetected", "collectLibraries"}
    /\ bPc' = [bPc EXCEPT ![i] = CASE @ = "collectConfig" -> "collectDetected"
                                   [] @ = "collectDetected" -> "collectLibraries"
                                   [] OTHER -> "prepare"]
    /\ bSched' = BYield(i)
    /\ UNCHANGED <<earlyVars, mtbRest, bCfg, bFs, bLocal, bBlob>>

\* prepareFinalEntry: fs.writeFileSync(finalPath, finalEntry).
BuildPrepareFinalEntry(i) ==
    /\ BRunning(i) /\ bPc[i] = "prepare"
    /\ LET finalEntry == FinalEntry(bCfg.encryptAssets, i)
       IN  /\ bFs' = (FinalPath :> finalEntry) @@ bFs
           /\ bLocal' = [bLocal EXCEPT ![i].finalEntry = finalEntry]
    /\ bPc' = [bPc EXCEPT ![i] = "generate"]
    /\ bSched' = BYield(i)
    /\ UNCHANGED <<earlyVars, mtbRest, bCfg, bBlob>>

\* The asset map of buildTarget, then generateSEAForTarget up to
\* await generateBlob(...): the manifest, the SEA config, the child process.
BuildGenerate(i) ==
    /\ BRunning(i) /\ bPc[i] = "generate"
    /\ LET allAssets == DedupeByKey(bLocal[i].rebuiltAssets, <<>>)
       IN  bLocal' = [bLocal EXCEPT
              ![i].allAssets = allAssets,
              ![i].manifest = generateManifest(allAssets, DefaultConfig, BuildOutputs[i])]
    /\ bPc' = [bPc EXCEPT ![i] = "blob"]
    /\ bSched' = BWait(i)
    /\ UNCHANGED <<earlyVars, mtbRest, bCfg, bFs, bBlob>>

\* node --experimental-sea-config reads the main script and the assets and
\* writes the blob; the child process exits.
BuildBlobDone(i) ==
    /\ i \in bSched.io /\ bPc[i] = "blob"
    /\ bBlob' = [bBlob EXCEPT
          ![i] = GeneratedBlob(bFs, FinalPath, bLocal[i].allAssets, bLocal[i].manifest)]
    /\ bPc' = [bPc EXCEPT ![i] = "inject"]
    /\ bSched' = [bSched EXCEPT !.io = @ \ {i}, !.queue = Append(@, i)]
    /\ UNCHANGED <<earlyVars, mtbRest, bCfg, bFs, bLocal>>

\* fetchNodeBinary, injectBlob, the cleanup: buildTarget returns.
BuildInject(i) ==
    /\ BRunning(i) /\ bPc[i] = "inject"
    /\ bPc' = [bPc EXCEPT ![i] = "done"]
    /\ bSched' = [bSched EXCEPT !.queue = Tail(@)]
    /\ UNCHANGED <<earlyVars, mtbRest, bCfg, bFs, bLocal, bBlob>>

NextBuild ==
    \E i \in 1..Len(BuildOutputs) :
        \/ BuildCached(i)
        \/ BuildRebuild(i)
        \/ BuildFind(i)
        \/ BuildCache(i)
        \/ BuildHashDone(i)
        \/ BuildRebuilt(i)
        \/ BuildCollect(i)
        \/ BuildPrepareFinalEntry(i)
        \/ BuildGenerate(i)
        \/ BuildBlobDone(i)
        \/ BuildInject(i)

SpecBuild == InitBuild /\ [][NextBuild]_vars

(***************************************************************************)
(* The '.node' extension handler of setupNodeExtensionHandler and the lazy *)
(* placeholder it exports while the native module map is missing.          *)
(***************************************************************************)

\* The property reads of one process.
MaxReads == 3

\* The properties application code reads; the add-on exports the first.
LazyProps == {"open", "close"}

\* module.exports after process.dlopen(module, resolvedPath).
AddonExports(resolvedPath) ==
    <<[k |-> "open", v |-> <<"native", resolvedPath>>]>>

\* The state the closure of one placeholder holds.
NoCell == [made |-> FALSE, moduleKey |-> <<>>, nameWithoutExt |-> <<>>,
           realModuleLoaded |-> FALSE, realExports |-> Null]

\* global.__seaNativeModuleMap[k1] || global.__seaNativeModuleMap[k2]
LazyResolve(nmap, k1, k2) ==
    IF ObjGet(nmap, k1) # Null THEN ObjGet(nmap, k1) ELSE ObjGet(nmap, k2)

\* The cell never marks the module as loaded.
lazyGetUnguarded(defined, nmap, cell, prop) ==
    IF defined /\ LazyResolve(nmap, cell.moduleKey, cell.nameWithoutExt) # Null
    THEN LET resolvedPath == LazyResolve(nmap, cell.moduleKey, cell.nameWithoutExt)
         IN  [cell |-> [cell EXCEPT !.realExports = AddonExports(resolvedPath)],
              dlopen |-> <<resolvedPath>>,
              out |-> Returned(ObjGet(AddonExports(resolvedPath), prop))]
    ELSE [cell |-> cell, dlopen |-> <<>>, out |-> Threw]

\* handler.get(target, prop) of the proxy: defined says whether
\* global.__seaNativeModuleMap is set, nmap is its value.
lazyGet(defined, nmap, cell, prop) ==
    IF ~cell.realModuleLoaded
    THEN IF defined
         THEN LET resolvedPath == LazyResolve(nmap, cell.moduleKey, cell.nameWithoutExt)
              IN  IF resolvedPath # Null
                  THEN [cell |-> [cell EXCEPT !.realExports = AddonExports(resolvedPath),
                                              !.realModuleLoaded = TRUE],
                        dlopen |-> <<resolvedPath>>,
                        out |-> Returned(ObjGet(AddonExports(resolvedPath), prop))]
                  ELSE [cell |-> cell, dlopen |-> <<>>, out |-> Threw]
         ELSE [cell |-> cell, dlopen |-> <<>>, out |-> Threw]
    ELSE [cell |-> cell, dlopen |-> <<>>, out |-> Returned(ObjGet(cell.realExports, prop))]

\* The add-ons a bundle requires and the binaries a manifest lists.
LazyFileSeq == << <<"a">> \o Str_node, <<"b">> \o Str_node >>

LazyFileNames == { LazyFileSeq[n] : n \in 1..Len(LazyFileSeq) }

InitLazy ==
    /\ EarlyOff
    /\ LazyRestOff
    /\ zPc = "start"
    /\ \E hst \in Hosts, f \in LazyFileNames, bins \in SUBSET LazyFileNames :
          zEnv = [host |-> hst,
                  filename |-> PathJoin(hst, <<"/", "s">>, f),
                  binaries |-> bins,
                  cacheDir |-> <<"/", "c">>]
    /\ zMap = [defined |-> FALSE, value |-> <<>>]
    /\ zCell = NoCell
    /\ zLog = <<>>

\* The map bootstrap() leaves in global.__seaNativeModuleMap: each extracted
\* binary under its file name and under its name without extension.
RECURSIVE LazyMapOf(_, _, _, _)
LazyMapOf(hst, dir, bins, n) ==
    IF n = 0 THEN <<>>
    ELSE LET f == LazyFileSeq[n]
             p == PathJoin(hst, dir, f)
             before == LazyMapOf(hst, dir, bins, n - 1)
         IN  IF f \in bins
             THEN ObjSet(ObjSet(before, f, p), BasenameExt(hst, f, Extname(hst, f)), p)
             ELSE before

\* bootstrap() ends: global.__seaNativeModuleMap = nativeModuleMap.
LazyBootstrap ==
    /\ zPc \in {"start", "required"}
    /\ ~zMap.defined
    /\ zMap' = [defined |-> TRUE, value |-> LazyMapOf(zEnv.host, zEnv.cacheDir, zEnv.binaries, Len(LazyFileSeq))]
    /\ zLog' = Append(zLog, [ev |-> "bootstrap", prop |-> "", path |-> <<>>, out |-> Returned(<<>>)])
    /\ UNCHANGED <<earlyVars, lazyRest, zPc, zEnv, zCell>>

\* Module._extensions['.node'](module, filename): process.dlopen from the
\* map when the file is in it, the placeholder otherwise.
LazyRequire ==
    /\ zPc = "start"
    /\ LET basename == Basename(zEnv.host, zEnv.filename)
           nameWithoutExt == BasenameExt(zEnv.host, zEnv.filename, Str_node)
           resolvedPath == LazyResolve(zMap.value, basename, nameWithoutExt)
       IN  IF zMap.defined /\ resolvedPath # Null
           THEN /\ zLog' = Append(zLog, [ev |-> "dlopen", prop |-> "", path |-> resolvedPath,
                                          out |-> Returned(<<>>)])
                /\ zPc' = "loaded"
                /\ UNCHANGED zCell
           ELSE /\ zCell' = [NoCell EXCEPT !.made = TRUE, !.moduleKey = basename,
                                           !.nameWithoutExt = nameWithoutExt]
                /\ zPc' = "required"
                /\ UNCHANGED zLog
    /\ UNCHANGED <<earlyVars, lazyRest, zEnv, zMap>>

\* Application code reads a property of the placeholder.
LazyRead ==
    /\ zPc = "required"
    /\ Len(SelectSeq(zLog, LAMBDA e : e.ev = "get")) < MaxReads
    /\ \E prop \in LazyProps :
          LET r == lazyGet(zMap.defined, zMap.value, zCell, prop)
          IN  /\ zCell' = r.cell
              /\ zLog' = zLog
                    \o [i \in 1..Len(r.dlopen) |->
                           [ev |-> "dlopen", prop |-> "", path |-> r.dlopen[i],
                            out |-> Returned(<<>>)]]
                    \o <<[ev |-> "get", prop |-> prop, path |-> <<>>, out |-> r.out]>>
    /\ UNCHANGED <<earlyVars, lazyRest, zPc, zEnv, zMap>>

NextLazy ==
    \/ LazyBootstrap
    \/ LazyRequire
    \/ LazyRead

SpecLazy == InitLazy /\ [][NextLazy]_vars

(***************************************************************************)
(* Helpers of the properties.                                              *)
(***************************************************************************)
\* The operations of this run that change the cache.
Mutations == SelectSeq(ops, LAMBDA o : o.op \in {"write", "unlink", "chmod", "mkdir"})

OpsOf(kind) == SelectSeq(ops, LAMBDA o : o.op = kind)

BootstrapDone == pc \in {"app", "loaded"}

\* This run started on the cache a successful run left, untouched since.
SecondRunOnCleanCache == run >= 1 /\ prevOk /\ tamper = NoTamper

TargetPathOf(b) == PathJoin(host, cacheDir, b.fileName)

(***************************************************************************)
(* C1: idempotent extraction.  A run against the cache that a successful   *)
(* earlier run populated (same manifest, same blob, nothing touched in     *)
(* between) finishes bootstrap and performs no write, unlink, chmod or     *)
(* mkdir in the cache.                                                     *)
(***************************************************************************)
C1_IdempotentExtraction ==
    (SecondRunOnCleanCache /\ pc \in {"extract", "app", "loaded", "failed"})
        => (pc # "failed" /\ Mutations = <<>>)

(***************************************************************************)
(* C2: hash enforcement.  When exactly one cached file was altered after a *)
(* successful run, the next bootstrap finishes, its only cache operations  *)
(* are one unlink and one write (and the chmod) of that file, and every    *)
(* entry extracted to that path then has its manifest hash on disk.        *)
(***************************************************************************)
C2_HashEnforcement ==
    (run >= 1 /\ prevOk /\ tamper.kind = "alter" /\ pc \in {"app", "loaded", "failed"})
        => /\ pc # "failed"
           /\ Len(OpsOf("unlink")) = 1
           /\ Len(OpsOf("write")) = 1
           /\ \A i \in 1..Len(Mutations) : Mutations[i].path = tamper.path
           /\ \A i \in 1..Len(platformBinaries) :
                 TargetPathOf(platformBinaries[i]) = tamper.path
                    => /\ tamper.path \in DOMAIN disk
                       /\ Sha256(disk[tamper.path]) = platformBinaries[i].hash

(***************************************************************************)
(* C3: a blob whose bytes do not hash to the manifest hash is never        *)
(* written: the integrity error ends bootstrap at that entry, before the   *)
(* write, and neither a later entry nor the module-resolution setup nor    *)
(* application code is reached.                                            *)
(***************************************************************************)
C3_IntegrityFailsHard ==
    /\ \A p \in DOMAIN disk : disk[p] # Stale
    /\ err = "integrity" =>
          /\ pc \in {"failed", "idle"}
          /\ idx <= Len(platformBinaries)
          /\ \A i \in 1..Len(ops) :
                ~(ops[i].op = "write" /\ ops[i].key = platformBinaries[idx].assetKey)
          /\ \A i \in idx..Len(platformBinaries) :
                ObjGet(assetPathMapGlobal, platformBinaries[i].assetKey) = Null
          /\ cacheDirGlobal = <<>>
          /\ OpsOf("dlopen") = <<>>

C3_Witness ==
    /\ err = "integrity"
    /\ pc = "failed"
    /\ idx < Len(platformBinaries)
    /\ blob[platformBinaries[idx].assetKey] = Stale

(***************************************************************************)
(* C4: after a successful bootstrap the path the redirect table records    *)
(* for every selected entry exists and holds content with that entry's     *)
(* manifest hash.                                                          *)
(***************************************************************************)
C4_ExtractedMatchesManifest ==
    BootstrapDone =>
        \A i \in 1..Len(platformBinaries) :
            LET path == ObjGet(assetPathMapGlobal, platformBinaries[i].assetKey) IN
            /\ path # Null
            /\ path \in DOMAIN disk
            /\ Sha256(disk[path]) = platformBinaries[i].hash

(***************************************************************************)
(* C5: after bootstrap, for every extracted entry, a module-resolution     *)
(* request for its fileName and for a relative path ending in its fileName *)
(* resolves to <cacheDir>/<fileName>; for a '.node' entry so does          *)
(* require('bindings')(name), with and without the '.node' suffix, through *)
(* the require shim and through the shim in the module cache.              *)
(***************************************************************************)
RelativeTo(fileName) == <<".", "/", "d", "/">> \o fileName

C5_ResolvesToExtractedPath ==
    BootstrapDone =>
        \A i \in 1..Len(platformBinaries) :
            LET fileName == platformBinaries[i].fileName
                path == TargetPathOf(platformBinaries[i])
            IN  /\ resolveFilename(host, nativeModuleMap, fileName) = path
                /\ resolveFilename(host, nativeModuleMap, RelativeTo(fileName)) = path
                /\ EndsWith(fileName, Str_node) =>
                      /\ requireBindings(host, nativeModuleMap, fileName) = path
                      /\ requireBindings(host, nativeModuleMap, StripNodeSuffix(fileName)) = path
                      /\ bindingsShim(host, nativeModuleMap, fileName) = path
                      /\ bindingsShim(host, nativeModuleMap, StripNodeSuffix(fileName)) = path

(***************************************************************************)
(* C6: redirect lookup.  With the redirect table populated, for every      *)
(* table entry A and every requested path whose basename is the basename   *)
(* of A's key, fs.existsSync answers whether A's extracted path exists.    *)
(***************************************************************************)
\* The paths application code asks the file system about: the source-tree
\* places of the project's files.
FsRequests ==
    { <<PathSep(host), "a", PathSep(host)>> \o ReplaceSlash(a.assetKey, host) :
        a \in AssetUniverse }

C6_RedirectLookup ==
    BootstrapDone =>
        \A i \in 1..Len(assetPathMapGlobal) : \A p \in FsRequests :
            Basename(host, p) = Basename(host, assetPathMapGlobal[i].k)
                => existsSync(host, assetPathMapGlobal, cacheDirGlobal, disk, p)
                     = originalExistsSync(disk, assetPathMapGlobal[i].v)

(***************************************************************************)
(* C7: order invariant.  In every generated manifest the order of every    *)
(* shared-library entry (a file the library patterns *.dll, *.so, *.so.*   *)
(* and *.dylib collect) is below the order of every '.node' entry.         *)
(***************************************************************************)
\* A file name one of getDefaultLibraryPatterns' globs matches.
MatchesLibraryPattern(fileName) ==
    \/ EndsWith(fileName, Str_dll)
    \/ EndsWith(fileName, Str_so)
    \/ Includes(fileName, Str_so \o <<".">>)
    \/ EndsWith(fileName, Str_dylib)

IsAddon(fileName) == EndsWith(fileName, Str_node)

C7_LibrariesOrderedBeforeAddons ==
    \A i, j \in 1..Len(manifest.binaries) :
        (MatchesLibraryPattern(manifest.binaries[i].fileName)
            /\ IsAddon(manifest.binaries[j].fileName))
        => manifest.binaries[i].order < manifest.binaries[j].order

(***************************************************************************)
(* C8: extraction is sequential and ascending: in every run each write of  *)
(* a shared-library entry precedes each write of a '.node' entry, and no   *)
(* native load (DLL preload, dlopen through require) precedes a write.     *)
(***************************************************************************)
FileNameOfKey(k) ==
    LET i == CHOOSE i \in 1..Len(platformBinaries) : platformBinaries[i].assetKey = k
    IN  platformBinaries[i].fileName

C8_LibrariesWrittenBeforeAddons ==
    \A i, j \in 1..Len(ops) :
        i < j =>
            /\ ~(/\ ops[i].op = "write" /\ IsAddon(FileNameOfKey(ops[i].key))
                 /\ ops[j].op = "write" /\ MatchesLibraryPattern(FileNameOfKey(ops[j].key)))
            /\ ~(ops[i].op = "dlopen" /\ ops[j].op = "write")

(***************************************************************************)
(* C9: encryption round trip.  The blob encryptAsset(P, K) is the 16-byte  *)
(* IV, the 16-byte tag, then the ciphertext (|P| + 32 bytes), and the      *)
(* bootstrap's decryptAsset returns exactly P from it, also for empty P.   *)
(***************************************************************************)
C9_EncryptionRoundTrip ==
    (cPc \in {"embedded", "read"} /\ ~cFlipped) =>
        /\ Len(cRaw) = Len(cPlain) + 32
        /\ SubSeq(cRaw, 1, 16) = cIv
        /\ SubSeq(cRaw, 33, Len(cRaw)) = GcmCrypt(cKey, cIv, cPlain)
        /\ SubSeq(cRaw, 17, 32) = GcmTag(cKey, cIv, SubSeq(cRaw, 33, Len(cRaw)))
        /\ (cPc = "read" => cDecrypted = Returned(cPlain))

C9_Witness ==
    /\ cPc = "read"
    /\ ~cFlipped
    /\ Len(cPlain) = 2
    /\ cPlain[1] # cPlain[2]
    /\ cRaw # cIv \o GcmTag(cKey, cIv, cPlain) \o cPlain
    /\ cDecrypted = Returned(cPlain)

(***************************************************************************)
(* C10: tamper detection.  After any single-bit change of the blob (IV,    *)
(* tag or ciphertext) decryptAsset throws, and the patched sea.getAsset    *)
(* throws too: it returns neither the raw nor any decrypted bytes.         *)
(***************************************************************************)
C10_TamperDetected ==
    (cPc = "read" /\ cFlipped) => (cDecrypted = Threw /\ cResult = Threw)

C10_Witness ==
    /\ cPc = "read"
    /\ cFlipped
    /\ SubSeq(cRaw, 1, 32) = SubSeq(encryptAsset(cPlain, cKey, cIv), 1, 32)
    /\ Len(cPlain) > 0
    /\ cResult = Threw

C12_EncryptionInvisible ==
    (pPc = "read" /\ ~pRead.asset.isBinary) => pRead.result = pRead.reference

(***************************************************************************)
(* C13: with encryptAssets true, in both pipelines, every non-binary asset *)
(* that matches no encryptExclude pattern is embedded as ciphertext that   *)
(* decrypts to its content under the injected key, and its key is in the   *)
(* injected SEA_ENCRYPTED_ASSETS set.                                      *)
(***************************************************************************)
C13_NonBinariesEncrypted ==
    (pPc \in {"built", "read"} /\ pCfg.encryptAssets) =>
        \A i \in 1..Len(pCfg.assets) :
            LET a == pCfg.assets[i]
                b == pBuild.made
            IN  (~a.isBinary /\ ~ShouldExclude(a.assetKey, pCfg.encryptExclude))
                   => /\ b.injected.defined
                      /\ a.assetKey \in b.injected.keys
                      /\ b.blob[a.assetKey] # a.content
                      /\ decryptAsset(b.blob[a.assetKey], b.injected.key) = Returned(a.content)

(***************************************************************************)
(* C14: embedded non-binary assets are served through fs.  After bootstrap *)
(* in the executable, on a host that has no source tree, fs.readFileSync   *)
(* on the source-tree path of every embedded non-binary asset returns the  *)
(* content embedded for it.                                                *)
(***************************************************************************)
\* path.join(__dirname, ...) of an asset: its place in the source tree.
SourceTreePath(a) == <<PathSep(host), "a", PathSep(host)>> \o ReplaceSlash(a.assetKey, host)

C14_AssetsServedThroughFs ==
    BootstrapDone =>
        \A i \in 1..Len(assets) :
            ~assets[i].isBinary =>
                readFileSync(host, assetPathMapGlobal, disk, SourceTreePath(assets[i]))
                    = [threw |-> FALSE, value |-> blob[assets[i].assetKey]]

\* The cache root the documentation names for an environment and a
\* configuration: SEACACHE, else cacheLocation with its variable expanded,
\* else the platform default.
CacheRoot(hst, env, cwd, cacheLocation) ==
    LET sep == <<PathSep(hst)>>
        home == EnvGet(env, Str_HOME)
        literal == cacheLocation \in {<<"/", "k">>, <<"k">>}
        expanded == IF cacheLocation = <<"/", "k">> THEN sep \o <<"k">>
                    ELSE IF cacheLocation = <<"k">> THEN cwd \o sep \o <<"k">>
                    ELSE home \o sep \o <<"k">>
    IN  IF EnvGet(env, Str_SEACACHE) # <<>> THEN EnvGet(env, Str_SEACACHE)
        ELSE IF cacheLocation # <<>> THEN expanded
        ELSE (IF EnvGet(env, Str_LOCALAPPDATA) # <<>> THEN EnvGet(env, Str_LOCALAPPDATA)
              ELSE IF home # <<>> THEN home ELSE cwd)
             \o sep \o <<".", "s", "e", "a", "-", "c", "a", "c", "h", "e">>

\* The cases of a cache root the documentation determines: every one but a
\* cacheLocation that names a variable the environment does not set.
CacheRootDetermined(env, cacheLocation) ==
    \/ EnvGet(env, Str_SEACACHE) # <<>>
    \/ cacheLocation \in {<<>>, <<"/", "k">>, <<"k">>}
    \/ /\ cacheLocation # <<"$", "X", "/", "k">>
       /\ EnvGet(env, Str_HOME) # <<>>

(* C15: for every source of the cache root (SEACACHE, cacheLocation with    *)
(* %VAR%, $VAR or ${VAR} expanded, the platform default) a binary is         *)
(* extracted to <cacheRoot>/<appName>/<appVersion>-<platform>-<arch>/<fileName>. *)
C15_ExtractionPathLayout ==
    (dPc = "extracted" /\ CacheRootDetermined(dIn.env, dIn.config.cacheLocation))
    => LET sep == <<PathSep(dIn.host)>>
       IN  dOut.targetPath =
              CacheRoot(dIn.host, dIn.env, dIn.cwd, dIn.config.cacheLocation)
              \o sep \o dOut.manifest.appName
              \o sep \o VersionDir(dOut.manifest)
              \o sep \o dIn.fileName

\* Two outcomes of a call are the same: both threw, or both returned the same value.
SameOutcome(a, b) == a.threw = b.threw /\ (~a.threw => a.value = b.value)

(* C16: when the packaged-context probe is negative, loading the bootstrap   *)
(* throws nothing, extracts nothing, reads no asset, leaves the redirect     *)
(* table empty and module resolution untouched, and every fs call behaves    *)
(* exactly as without the bootstrap.                                         *)
C16_InertOutsideSea ==
    (vPc \in {"loaded", "failed", "called"} /\ ~vState.isSEA)
    => /\ ~vState.threw
       /\ ~vState.extracted
       /\ ~vState.assetAccess
       /\ vState.assetPathMapGlobal = <<>>
       /\ ~vState.resolveFilenameHooked
       /\ vPc = "called" => SameOutcome(vCall.result, vCall.reference)

(* C17: generateManifest fails with an error whenever a binary asset has no  *)
(* hash; no manifest it returns has a binary entry with an undefined hash.   *)
C17_ManifestRequiresHashes ==
    mPc \in {"manifest", "json"}
    => /\ (\E i \in 1..Len(mAssets.assets) :
              mAssets.assets[i].isBinary /\ mAssets.assets[i].hash = Null)
          => mResult.threw
       /\ ~mResult.threw
          => \A i \in 1..Len(mResult.manifest.binaries) :
                mResult.manifest.binaries[i].hash # Null

(* C18: the binaries of every manifest generateManifest returns, and of the  *)
(* embedded JSON, are sorted ascending by order for every order of the input *)
(* assets.                                                                   *)
C18_ManifestSortedByOrder ==
    (mPc \in {"manifest", "json"} /\ ~mResult.threw)
    => \A i, j \in 1..Len(mResult.manifest.binaries) :
          i < j => mResult.manifest.binaries[i].order <= mResult.manifest.binaries[j].order

\* The blob holds, for every selected entry, the bytes its manifest hash names.
BlobIntact ==
    \A i \in 1..Len(platformBinaries) :
        /\ platformBinaries[i].assetKey \in DOMAIN blob
        /\ Sha256(blob[platformBinaries[i].assetKey]) = platformBinaries[i].hash

\* The run follows a run that was interrupted during extraction.
AfterInterruptedRun == tamper.kind = "interrupt" /\ pc \notin {"idle", "overrides"}

\* The step writes the file of the entry at idx.
WritesEntry ==
    /\ pc = "extract"
    /\ idx <= Len(platformBinaries)
    /\ Len(OpsOf("write"))' > Len(OpsOf("write"))

(* C19: after a run that was interrupted at any point of extraction (between *)
(* two entries, or in the middle of a write, leaving a partial file) the    *)
(* next uninterrupted run ends with every selected entry in the cache with  *)
(* its manifest hash, and rewrites only entries whose file was missing or   *)
(* had another hash.                                                        *)
C19_SelfHealingAfterInterrupt ==
    /\ []((AfterInterruptedRun /\ BlobIntact /\ pc \in {"app", "loaded", "failed"})
          => /\ pc # "failed"
             /\ \A i \in 1..Len(platformBinaries) :
                   LET targetPath == PathJoin(host, cacheDir, platformBinaries[i].fileName) IN
                   /\ targetPath \in DOMAIN disk
                   /\ Sha256(disk[targetPath]) = platformBinaries[i].hash)
    /\ [][(AfterInterruptedRun /\ WritesEntry)
          => LET targetPath == PathJoin(host, cacheDir, platformBinaries[idx].fileName) IN
             \/ targetPath \notin DOMAIN disk
             \/ Sha256(disk[targetPath]) # platformBinaries[idx].hash]_vars

\* No two entries of the executable share a file name or the basename of a key.
QNoClash ==
    \A i, j \in 1..Len(qEnv.platformBinaries) :
        i # j =>
            LET a == qEnv.platformBinaries[i]
                b == qEnv.platformBinaries[j]
            IN  /\ a.fileName # b.fileName
                /\ Basename(qEnv.host, a.assetKey) # Basename(qEnv.host, b.assetKey)
                /\ Basename(qEnv.host, a.assetKey) # b.fileName

(* C20: two processes of the same executable run bootstrap concurrently on  *)
(* an empty cache: under every interleaving of their exists-check,          *)
(* hash-read, unlink, write and chmod steps both complete without error and *)
(* the cache finally holds every binary with its manifest hash.             *)
C20_ConcurrentBootstrapsSucceed ==
    QNoClash
    => /\ \A p \in Procs : qPc[p] # "failed"
       /\ (\A p \in Procs : qPc[p] = "done")
          => \A i \in 1..Len(qEnv.platformBinaries) :
                LET tp == PathJoin(qEnv.host, qEnv.cacheDir, qEnv.platformBinaries[i].fileName)
                IN  /\ tp \in DOMAIN qDisk
                    /\ Sha256(qDisk[tp]) = qEnv.platformBinaries[i].hash

\* The asset keys the documentation of scanAssets asks for: the files some
\* positive pattern matches and no exclusion matches.
ExpectedScanKeys ==
    LET positive == {sArgs.assetPatterns[k] : k \in {n \in 1..Len(sArgs.assetPatterns) :
                                                       sArgs.assetPatterns[n][1] # "!"}}
        negative == {SubSeq(sArgs.assetPatterns[k], 2, Len(sArgs.assetPatterns[k])) :
                        k \in {n \in 1..Len(sArgs.assetPatterns) :
                                  sArgs.assetPatterns[n][1] = "!"}}
        exclusions == negative \cup {sArgs.excludePatterns[k] : k \in 1..Len(sArgs.excludePatterns)}
    IN  {ProjectFiles[k] : k \in {n \in 1..Len(ProjectFiles) :
            /\ \E q \in positive : GlobMatch(q, ProjectFiles[n])
            /\ ~\E q \in exclusions : GlobMatch(q, ProjectFiles[n])}}

(* C21: scanAssets returns exactly the files that match a positive pattern  *)
(* and no exclusion ('!'-prefixed asset patterns and the legacy exclude),    *)
(* and no asset key occurs twice in the result.                              *)
C21_ScanIsIncludeMinusExclude ==
    sPc = "scanned"
    => /\ {sOut[k].assetKey : k \in 1..Len(sOut)} = ExpectedScanKeys
       /\ \A i, j \in 1..Len(sOut) : i # j => sOut[i].assetKey # sOut[j].assetKey

\* Two positive patterns matched the same file, and an exclusion of each kind
\* removed another, on a host whose separator is the backslash.
C21_Witness ==
    /\ sPc = "scanned"
    /\ sArgs.host.platform = "win32"
    /\ sArgs.assetPatterns = << <<".", "/", "*", "*", "/", "*">>, <<"s", "/", "*">>,
                                <<"!", "t", "/", "*", "*">> >>
    /\ sArgs.excludePatterns = << <<"*", "*", "/", "*", ".", "m", "d">> >>
    /\ Len(sOut) = 3

(* C22: while the redirect table is empty, each fs override calls the        *)
(* original function with the same arguments and returns or throws exactly  *)
(* its result, for every argument the original accepts: string paths,       *)
(* Buffers, URLs and numeric file descriptors.                              *)
C22_OverridesFallThrough ==
    (/\ vPc = "called"
     /\ vState.overridden
     /\ vState.assetPathMapGlobal = <<>>
     /\ vCall.fn \in {"existsSync", "readFileSync", "realpathSync"})
    => SameOutcome(vCall.result, vCall.reference)

(* C23: in every start of the executable the fs overrides are in place with  *)
(* an empty redirect table before the first binary is extracted; extraction, *)
(* the population of the table and the module-resolution override are       *)
(* complete before application code runs; only the extraction loop fills    *)
(* the table.                                                               *)
C23_BootstrapBeforeApplication ==
    /\ pc = "overrides" => (assetPathMapGlobal = <<>> /\ ops = <<>>)
    /\ \A n \in 1..Len(assetPathMapGlobal) :
          \E i \in 1..Len(platformBinaries) :
              /\ i < idx
              /\ platformBinaries[i].assetKey = assetPathMapGlobal[n].k
    /\ pc \in {"app", "loaded"}
       => /\ idx = Len(platformBinaries) + 1
          /\ \A i \in 1..Len(platformBinaries) :
                /\ ObjGet(assetPathMapGlobal, platformBinaries[i].assetKey) # Null
                /\ ObjGet(nativeModuleMap, platformBinaries[i].fileName) # Null
          /\ cacheDirGlobal = cacheDir
          /\ \A i, j \in 1..Len(ops) :
                (ops[i].op = "dlopen" /\ ops[j].op \in {"write", "unlink", "mkdir", "chmod"})
                => j < i

\* Application code has loaded an add-on after a run that extracted two entries.
C23_Witness ==
    /\ pc = "loaded"
    /\ Len(platformBinaries) = 2
    /\ Len(OpsOf("write")) = 2
    /\ Len(assetPathMapGlobal) = 2

\* How often an event occurs in the log of the snapshot-mode process.
SnapCount(e) == Len(SelectSeq(nLog, LAMBDA x : x = e))

(* C24: in snapshot mode nothing is extracted and no asset is read while    *)
(* the snapshot is built; at run time the registered function runs          *)
(* bootstrap() to completion and only then calls the application's          *)
(* callback, exactly once; when bootstrap() throws the callback is never    *)
(* called.                                                                  *)
C24_SnapshotDefersBootstrap ==
    /\ nPc \in {"building", "wrapped", "registered"}
       => /\ nRun.disk = <<>>
          /\ nRun.ops = <<>>
          /\ SnapCount("getAsset") = 0
          /\ SnapCount("extract") = 0
          /\ SnapCount("callback") = 0
    /\ nPc = "failed" => SnapCount("callback") = 0
    /\ nPc = "app"
       => /\ SnapCount("callback") = 1
          /\ nLog[Len(nLog)] = "callback"
          /\ SnapCount("extract") = Len(nEnv.platformBinaries)
          /\ nRun.idx = Len(nEnv.platformBinaries) + 1
          /\ nRun.err = "none"

\* The callback ran after a bootstrap that extracted two binaries.
C24_Witness ==
    /\ nPc = "app"
    /\ Len(nEnv.platformBinaries) = 2
    /\ Len(SelectSeq(nRun.ops, LAMBDA o : o.op = "write")) = 2

\* C25: for every target built by buildAll and every binary entry of its
\* manifest, the recorded hash is the SHA-256 of the bytes the target's blob
\* embeds under that asset key.
C25_HashMatchesEmbeddedBytes ==
    \A i \in 1..Len(BuildOutputs) :
        bPc[i] \in {"inject", "done"} =>
            \A n \in 1..Len(bBlob[i].manifest.binaries) :
                LET b == bBlob[i].manifest.binaries[n]
                IN  b.hash = Sha256(bBlob[i].assets[b.assetKey])

\* C28: the main script of each target's blob is the final entry that
\* target's own prepareFinalEntry produced.
C28_BlobEmbedsOwnFinalEntry ==
    \A i \in 1..Len(BuildOutputs) :
        bPc[i] \in {"inject", "done"} => bBlob[i].main = bLocal[i].finalEntry

\* The positions of the events of one kind in the log of the placeholder.
LazyEvents(ev) == { i \in 1..Len(zLog) : zLog[i].ev = ev }

\* The path bootstrap() maps the required file to, Null when the manifest
\* does not list it.
LazyExpectedPath ==
    IF Basename(zEnv.host, zEnv.filename) \in zEnv.binaries
    THEN PathJoin(zEnv.host, zEnv.cacheDir, Basename(zEnv.host, zEnv.filename))
    ELSE Null

C27_OnlyNamedRequestsRedirected ==
    pc = "loaded" =>
        LET request == ops[Len(ops)].key
        IN  \E i \in 1..Len(nativeModuleMap) :
                nativeModuleMap[i].k \in {request, Basename(host, request)}

(***************************************************************************)
(* writeSeaConfigJson (blob.mjs): inline content goes to a file of the     *)
(* temporary directory, the SEA config maps every asset key to a file.     *)
(***************************************************************************)

\* asset.assetKey.replace(/\//g, '_')
RECURSIVE FlattenKey(_)
FlattenKey(key) ==
    IF key = <<>> THEN <<>>
    ELSE <<IF Head(key) = "/" THEN "_" ELSE Head(key)>> \o FlattenKey(Tail(key))

\* The loop of writeSeaConfigJson over the assets: files are the files
\* written so far, paths the jsonConfig.assets object.
RECURSIVE SeaConfigFrom(_, _, _, _, _)
SeaConfigFrom(assetList, tempDir, i, files, paths) ==
    IF i > Len(assetList) THEN [files |-> files, assets |-> paths]
    ELSE LET asset == assetList[i] IN
         IF asset.content # Null
         THEN LET tempFilePath == PathJoin(BuildHost, tempDir, FlattenKey(asset.assetKey))
              IN  SeaConfigFrom(assetList, tempDir, i + 1,
                                (tempFilePath :> asset.content) @@ files,
                                ObjSet(paths, asset.assetKey, tempFilePath))
         ELSE SeaConfigFrom(assetList, tempDir, i + 1, files,
                            ObjSet(paths, asset.assetKey, asset.sourcePath))

\* writeSeaConfigJson(seaConfig, outputPath, assets, tempDir): the files of
\* the disk afterwards and the assets object of the JSON written last.
writeSeaConfigJson(files, outputPath, assetList, tempDir) ==
    LET r == SeaConfigFrom(assetList, tempDir, 1, files, <<>>)
    IN  [files |-> (outputPath :> <<"json", r.assets>>) @@ r.files, assets |-> r.assets]

\* Asset keys of a project: a file in a directory, a file whose name has an
\* underscore, a plain file.
SeaKeys == { <<"a", "/", "b">>, <<"a", "_", "b">>, <<"c">> }

\* An asset of build(): encrypted assets carry their ciphertext as content,
\* the others are read from sourcePath.
SeaAsset(key, encrypted) ==
    [assetKey |-> key, sourcePath |-> <<"/", "p", "/">> \o key,
     content |-> IF encrypted THEN <<"encrypted", key>> ELSE Null]

\* The manifest asset build() pushes last.
SeaManifestAsset(keys) ==
    [assetKey |-> Str_manifest, sourcePath |-> Null, content |-> <<"json", keys>>]

InitSeaConfig ==
    /\ EarlyOff
    /\ SeaRestOff
    /\ wPc = "built"
    /\ \E n \in 0..MaxAssets + 1 :
       \E keys \in [1..n -> SeaKeys], enc \in [1..n -> BOOLEAN] :
          /\ \A i, j \in 1..n : i # j => keys[i] # keys[j]
          /\ wIn = [assets |-> [i \in 1..n |-> SeaAsset(keys[i], enc[i])]
                                  \o <<SeaManifestAsset(keys)>>,
                    tempDir |-> <<"/", "t">>,
                    files |-> [p \in { <<"/", "p", "/">> \o keys[i] : i \in 1..n } |->
                                  <<"plain", SubSeq(p, 4, Len(p))>>]]
    /\ wOut = <<>>

\* build() step 5: writeSeaConfigJson(seaConfig, seaConfigPath, assets, tempDir)
WriteSeaConfigJson ==
    /\ wPc = "built"
    /\ wOut' = writeSeaConfigJson(wIn.files,
                                  PathJoin(BuildHost, wIn.tempDir,
                                           <<"s", "e", "a", "-", "c", "f", "g">>),
                                  wIn.assets, wIn.tempDir)
    /\ wPc' = "written"
    /\ UNCHANGED <<earlyVars, seaRest, wIn>>

NextSeaConfig == WriteSeaConfigJson

SpecSeaConfig == InitSeaConfig /\ [][NextSeaConfig]_vars

\* C29: after writeSeaConfigJson the file recorded for every asset key with
\* inline content holds that key's own content.
C29_DistinctKeysDistinctPayloads ==
    wPc = "written" =>
        \A i \in 1..Len(wIn.assets) :
            wIn.assets[i].content # Null =>
                wOut.files[ObjGet(wOut.assets, wIn.assets[i].assetKey)] = wIn.assets[i].content

(***************************************************************************)
(* loadConfig (config.mjs) and the manifest generateSEAForTarget builds    *)
(* from the loaded configuration.                                          *)
(***************************************************************************)

\* A configuration object as a JSON file or the "seabox" field holds it:
\* entry and outputs (or the older targets), an optional cacheLocation.
ConfigFiles ==
    { [entry |-> <<"e">>, outputs |-> o, targets |-> IF o = <<>> THEN <<"t">> ELSE <<>>,
       cacheLocation |-> c] :
        o \in {<<>>, <<"o">>}, c \in {Null, <<".", "/", "k">>} }

\* package.json: name, version and the "seabox" field (Null when absent).
PackageJsons ==
    { [name |-> n, version |-> v, seabox |-> s] :
        n \in {<<"x">>, <<"y", "z">>}, v \in {<<"1">>, <<"2">>},
        s \in ConfigFiles \cup {Null} }

\* normalizeConfig(pkgConfig, pkg): both formats carry the package's name
\* and version.
normalizeConfig(pkgConfig, pkg) ==
    IF pkgConfig.outputs # <<>>
    THEN [entry |-> pkgConfig.entry, outputs |-> pkgConfig.outputs,
          cacheLocation |-> pkgConfig.cacheLocation,
          _packageName |-> pkg.name, _packageVersion |-> pkg.version]
    ELSE [entry |-> pkgConfig.entry, outputs |-> pkgConfig.targets,
          cacheLocation |-> pkgConfig.cacheLocation,
          _packageName |-> pkg.name, _packageVersion |-> pkg.version]

\* JSON.parse of a configuration file: the object as written.
ParsedConfig(file) ==
    [entry |-> file.entry, outputs |-> file.outputs, cacheLocation |-> file.cacheLocation,
     _packageName |-> Null, _packageVersion |-> Null]

\* loadConfig(configPath, projectRoot): explicitFile is the file at
\* configPath, seaboxConfigJson and packageJson the project's files, each
\* Null when it does not exist.  Returned(Null) is the null result.
loadConfig(configPath, explicitFile, seaboxConfigJson, packageJson) ==
    IF configPath # Null
    THEN IF explicitFile = Null THEN Threw ELSE Returned(ParsedConfig(explicitFile))
    ELSE IF seaboxConfigJson # Null THEN Returned(ParsedConfig(seaboxConfigJson))
    ELSE IF packageJson # Null /\ packageJson.seabox # Null
    THEN Returned(normalizeConfig(packageJson.seabox, packageJson))
    ELSE Returned(Null)

InitConfig ==
    /\ EarlyOff
    /\ CfgRestOff
    /\ gPc = "start"
    /\ \E configPath \in {Null, <<"c", ".", "j">>},
          explicitFile \in ConfigFiles \cup {Null},
          seaboxConfigJson \in ConfigFiles \cup {Null},
          packageJson \in PackageJsons \cup {Null},
          tgt \in Targets :
          /\ (configPath = Null => explicitFile = Null)
          /\ gIn = [configPath |-> configPath, explicitFile |-> explicitFile,
                    seaboxConfigJson |-> seaboxConfigJson, packageJson |-> packageJson,
                    target |-> tgt]
    /\ gOut = [config |-> Returned(Null), manifest |-> NoManifest]

\* seabox build: loadConfig(configPath, projectRoot); no configuration and a
\* missing --config file end the command.
LoadConfig ==
    /\ gPc = "start"
    /\ LET r == loadConfig(gIn.configPath, gIn.explicitFile, gIn.seaboxConfigJson,
                           gIn.packageJson)
       IN  /\ gOut' = [gOut EXCEPT !.config = r]
           /\ gPc' = IF r.threw \/ r.value = Null THEN "failed" ELSE "loaded"
    /\ UNCHANGED <<earlyVars, cfgRest, gIn>>

\* generateSEAForTarget: generateManifest(assets, { _packageName:
\* this.config._packageName || 'app', ... }, platform, arch).
GenerateSEAManifest ==
    /\ gPc = "loaded"
    /\ LET config == gOut.config.value
       IN  gOut' = [gOut EXCEPT !.manifest =
              generateManifest(<<>>,
                  [_packageName |-> IF config._packageName # Null
                                    THEN config._packageName ELSE <<"a", "p", "p">>,
                   _packageVersion |-> IF config._packageVersion # Null
                                       THEN config._packageVersion
                                       ELSE <<"1", ".", "0", ".", "0">>,
                   cacheLocation |-> config.cacheLocation],
                  gIn.target)]
    /\ gPc' = "generated"
    /\ UNCHANGED <<earlyVars, cfgRest, gIn>>

NextConfig ==
    \/ LoadConfig
    \/ GenerateSEAManifest

SpecConfig == InitConfig /\ [][NextConfig]_vars

\* C30: whichever source loadConfig used, the manifest's appName and
\* appVersion are the name and version of the project's package.json.
C30_ManifestNamesThePackage ==
    (gPc = "generated" /\ gIn.packageJson # Null) =>
        /\ gOut.manifest.appName = gIn.packageJson.name
        /\ gOut.manifest.appVersion = gIn.packageJson.version

=============================================================================
